---- MODULE Spec2Model ----
(***************************************************************************)
(* Model of the study-tracking backend of lang-portal (Go, gorm, SQLite):  *)
(* the entity store, the repositories, the services and the HTTP handlers  *)
(* that write to it, and the aggregation functions computed from it.       *)
(*                                                                         *)
(* Time is counted in ticks; one day is TicksPerDay ticks, so the code's    *)
(* "x.Sub(y).Hours() / 24 <= 1" is "x - y <= TicksPerDay".                  *)
(***************************************************************************)
EXTENDS Integers, Sequences, FiniteSets, TLC

\* ------------------------------------------------------------------ bounds
TicksPerDay == 2
MaxDays == 5
MaxStreakSessions == 4
MaxListLen == 4
MaxGroupSessions == 2
MaxRunLen == 20
MaxStatReviews == 50
MaxWords == 2
MaxGroups == 2
MaxActivities == 1
MaxSessions == 1
MaxReviews == 1

MaxTime == MaxDays * TicksPerDay - 1
Times == 0..MaxTime

VARIABLES
    db,     \* the entity store: one field per table, plus the AUTOINCREMENT counters
    now,    \* time.Now(), in ticks
    arg,    \* the in-memory value an operation works on: the struct a model method is
            \* called on, the paging parameters of a listing, the open transaction
    last    \* the last operation: its name, its arguments and what it returned

vars == <<db, now, arg, last>>

\* ------------------------------------------------------------------ helpers
Max(a, b) == IF a >= b THEN a ELSE b

SetMax(S) == CHOOSE x \in S : \A y \in S : y <= x

DayOf(t) == t \div TicksPerDay

\* ORDER BY created_at DESC over a table, projected on created_at
RECURSIVE OrderCreatedAtDesc(_)
OrderCreatedAtDesc(rows) ==
    IF rows = {} THEN <<>>
    ELSE LET top == CHOOSE r \in rows : \A q \in rows :
                        \/ q.created_at < r.created_at
                        \/ (q.created_at = r.created_at /\ q.id <= r.id)
         IN  <<top.created_at>> \o OrderCreatedAtDesc(rows \ {top})

\* ------------------------------------------------------------------ store
NoTables == [words |-> {}, groups |-> {}, study_activities |-> {},
             word_groups |-> {}, study_sessions |-> {}, word_review_items |-> {}]

NoSeq == [words |-> 0, groups |-> 0, study_activities |-> 0,
          study_sessions |-> 0, word_review_items |-> 0]

EmptyDb == [t \in DOMAIN NoTables \cup {"seq"} |->
               IF t = "seq" THEN NoSeq ELSE {}]

Idle == [op |-> "none"]

\* ------------------------------------------------------------------ streak
\* the loop of GetStudyStreak from index i on: st = [streak, lastStudyDate]
RECURSIVE StreakWalk(_, _, _)
StreakWalk(sessions, i, st) ==
    IF i > Len(sessions) THEN st
    ELSE LET currentDate == sessions[i]
             ticksDiff == st.lastStudyDate - currentDate
         IN  IF ticksDiff <= TicksPerDay
             THEN StreakWalk(sessions, i + 1,
                      [streak |-> st.streak + 1, lastStudyDate |-> currentDate])
             ELSE st

\* mutant: the final "today or yesterday" check is missing
StreakOf_NoCollapse(sessions, t) ==
    IF Len(sessions) = 0 THEN 0
    ELSE StreakWalk(sessions, 2, [streak |-> 1, lastStudyDate |-> sessions[1]]).streak

\* StudyRepository.GetStudyStreak on the sessions ordered by created_at DESC
StreakOf(sessions, t) ==
    IF Len(sessions) = 0 THEN 0
    ELSE LET st == StreakWalk(sessions, 2,
                       [streak |-> 1, lastStudyDate |-> sessions[1]])
         IN  IF t - st.lastStudyDate > TicksPerDay THEN 0 ELSE st.streak

GetStudyStreak(d, t) == StreakOf(OrderCreatedAtDesc(d.study_sessions), t)

\* ------------------------------------------------------------------ float64
\* A float64 is kept as its 53-bit significand (most significant bit first,
\* the first bit 1) and the exponent of its last bit: value = sig * 2^exp.
\* Every operation rounds to nearest, ties to even, as IEEE 754 does.
MantBits == 53

RECURSIVE IntBits(_)
IntBits(n) == IF n = 0 THEN <<>> ELSE Append(IntBits(n \div 2), n % 2)

RECURSIVE BitsInt(_)
BitsInt(b) ==
    IF b = <<>> THEN 0 ELSE 2 * BitsInt(SubSeq(b, 1, Len(b) - 1)) + b[Len(b)]

\* the n lowest bits of v, most significant first
LowBits(v, n) == [j \in 1..n |-> (v \div (2 ^ (n - j))) % 2]

\* bits + 1; one bit longer when every bit was 1
BitsIncr(b) ==
    IF \A j \in 1..Len(b) : b[j] = 1
    THEN [j \in 1..(Len(b) + 1) |-> IF j = 1 THEN 1 ELSE 0]
    ELSE LET k == CHOOSE i \in 1..Len(b) :
                      b[i] = 0 /\ \A j \in (i + 1)..Len(b) : b[j] = 1
         IN  [j \in 1..Len(b) |-> IF j < k THEN b[j] ELSE IF j = k THEN 1 ELSE 0]

FloatZero == [kind |-> "zero", sig |-> <<>>, exp |-> 0]
FloatNaN == [kind |-> "nan", sig |-> <<>>, exp |-> 0]
FloatInf == [kind |-> "inf", sig |-> <<>>, exp |-> 0]

\* the nearest float64 to bits * 2^exp, given the first dropped bit (guard)
\* and whether anything non-zero follows it (sticky)
RoundNearestEven(bits, exp, guard, sticky) ==
    IF guard = 1 /\ (sticky \/ bits[MantBits] = 1)
    THEN LET up == BitsIncr(bits)
         IN  IF Len(up) > MantBits
             THEN [kind |-> "num", sig |-> SubSeq(up, 1, MantBits), exp |-> exp + 1]
             ELSE [kind |-> "num", sig |-> up, exp |-> exp]
    ELSE [kind |-> "num", sig |-> bits, exp |-> exp]

\* 2^i mod b, for i below 120, without leaving 32-bit integers
Pow2Mod(i, b) ==
    LET high == IF i < 30 THEN 1 ELSE (((2 ^ 30) % b) ^ (i \div 30)) % b
    IN  (high * ((2 ^ (i % 30)) % b)) % b

\* r/b in binary, 0 <= r < b: the bit at place i after the point, and what
\* is left of r after n places
FracBit(r, b, i) == (2 * ((r * Pow2Mod(i - 1, b)) % b)) \div b
FracRem(r, b, n) == (r * Pow2Mod(n, b)) % b

\* a/b for integers a > 0, b > 0, cut after MantBits significant bits: the
\* bits, the exponent of the last one, and the guard and sticky of the rest
Quotient(a, b) ==
    LET ip == IntBits(a \div b)
        r == a % b
        lead == IF ip # <<>> THEN 0
                ELSE (CHOOSE i \in 1..31 :
                          FracBit(r, b, i) = 1 /\ \A j \in 1..(i - 1) : FracBit(r, b, j) = 0) - 1
        n == lead + MantBits - Len(ip)
    IN  [sig |-> [j \in 1..MantBits |->
                     IF j <= Len(ip) THEN ip[j] ELSE FracBit(r, b, lead + j - Len(ip))],
         exp |-> 0 - n,
         guard |-> FracBit(r, b, n + 1),
         sticky |-> FracRem(r, b, n + 1) # 0]

\* float64(a) / float64(b) for two non-negative integers
FloatDiv(a, b) ==
    IF b = 0 THEN (IF a = 0 THEN FloatNaN ELSE FloatInf)
    ELSE IF a = 0 THEN FloatZero
    ELSE LET q == Quotient(a, b)
         IN  RoundNearestEven(q.sig, q.exp, q.guard, q.sticky)

\* x * 100, the significand multiplied in three limbs of 13, 20 and 20 bits
FloatTimes100(x) ==
    IF x.kind # "num" THEN x
    ELSE LET limb == 2 ^ 20
             p0 == BitsInt(SubSeq(x.sig, 34, 53)) * 100
             p1 == BitsInt(SubSeq(x.sig, 14, 33)) * 100 + p0 \div limb
             p2 == BitsInt(SubSeq(x.sig, 1, 13)) * 100 + p1 \div limb
             p == IntBits(p2) \o LowBits(p1 % limb, 20) \o LowBits(p0 % limb, 20)
             extra == Len(p) - MantBits
         IN  RoundNearestEven(SubSeq(p, 1, MantBits), x.exp + extra, p[MantBits + 1],
                              \E i \in (MantBits + 2)..Len(p) : p[i] = 1)

\* float64(n) of a small integer
FloatOfInt(n) == FloatDiv(n, 1)

\* int(x): the fraction is cut off
FloatToInt(x) ==
    IF x.kind # "num" \/ MantBits + x.exp <= 0 THEN 0
    ELSE BitsInt(SubSeq(x.sig, 1, MantBits + x.exp))

\* ------------------------------------------------------------------ repository reads
\* StudyRepository.GetStudyStats: three COUNT queries
StudyRepoGetStudyStats(d) ==
    [totalSessions  |-> Cardinality(d.study_sessions),
     totalReviews   |-> Cardinality(d.word_review_items),
     correctReviews |-> Cardinality({r \in d.word_review_items : r.correct})]

\* StudyRepository.GetActiveGroups: COUNT(DISTINCT group_id) over study_sessions
GetActiveGroups(d) == Cardinality({s.group_id : s \in d.study_sessions})

\* int(float64(correct) / float64(total) * 100): the truncated percentage
\* DashboardService.GetQuickStats
GetQuickStats(d, t) ==
    LET stats == StudyRepoGetStudyStats(d)
        activeGroups == GetActiveGroups(d)
        successRate == IF stats.totalReviews > 0
                       THEN FloatToInt(FloatTimes100(FloatDiv(stats.correctReviews, stats.totalReviews)))
                       ELSE 0
        streak == GetStudyStreak(d, t)
    IN  [success_rate         |-> successRate,
         total_study_sessions |-> stats.totalSessions,
         total_active_groups  |-> activeGroups,
         study_streak_days    |-> streak]

\* ------------------------------------------------------------------ model methods
\* "for _, review := range Reviews": the counting loop from index i on
RECURSIVE CountLoop(_, _, _)
CountLoop(reviews, i, acc) ==
    IF i > Len(reviews) THEN acc
    ELSE CountLoop(reviews, i + 1,
             IF reviews[i].Correct
             THEN [acc EXCEPT !.correct = @ + 1]
             ELSE [acc EXCEPT !.wrong = @ + 1])

\* Word.GetStudyStats
WordGetStudyStats(w) ==
    LET c == CountLoop(w.Reviews, 1, [correct |-> 0, wrong |-> 0])
    IN  [correctCount |-> c.correct, wrongCount |-> c.wrong]

\* Word.GetSuccessRate
WordGetSuccessRate(w) ==
    LET st == WordGetStudyStats(w)
        total == st.correctCount + st.wrongCount
    IN  IF total = 0 THEN FloatOfInt(0)
        ELSE FloatTimes100(FloatDiv(st.correctCount, total))

\* StudySession.GetStudyStats
StudySessionGetStudyStats(s) ==
    [totalReviews   |-> Len(s.Reviews),
     correctReviews |-> CountLoop(s.Reviews, 1, [correct |-> 0, wrong |-> 0]).correct]

\* StudySession.GetSuccessRate
StudySessionGetSuccessRate(s) ==
    LET st == StudySessionGetStudyStats(s)
    IN  IF st.totalReviews = 0 THEN FloatOfInt(0)
        ELSE FloatTimes100(FloatDiv(st.correctReviews, st.totalReviews))

\* "for _, session := range g.Sessions { for _, review := range session.Reviews"
RECURSIVE GroupLoop(_, _, _)
GroupLoop(sessions, i, acc) ==
    IF i > Len(sessions) THEN acc
    ELSE LET c == CountLoop(sessions[i].Reviews, 1, [correct |-> 0, wrong |-> 0])
         IN  GroupLoop(sessions, i + 1,
                 [totalReviews   |-> acc.totalReviews + c.correct + c.wrong,
                  correctReviews |-> acc.correctReviews + c.correct])

\* Group.GetStudyStats
GroupGetStudyStats(g) ==
    LET c == GroupLoop(g.Sessions, 1, [totalReviews |-> 0, correctReviews |-> 0])
    IN  [totalSessions  |-> Len(g.Sessions),
         totalReviews   |-> c.totalReviews,
         correctReviews |-> c.correctReviews]

\* Group.GetSuccessRate
GroupGetSuccessRate(g) ==
    LET st == GroupGetStudyStats(g)
    IN  IF st.totalReviews = 0 THEN FloatOfInt(0)
        ELSE FloatTimes100(FloatDiv(st.correctReviews, st.totalReviews))

\* ------------------------------------------------------------------ store access
Ids(rows) == {r.id : r \in rows}

\* db.First(&x, id): the row, or gorm.ErrRecordNotFound
Exists(rows, id) == id \in Ids(rows)

\* the id an INSERT gets: the given one, or the next AUTOINCREMENT value for id 0
InsertId(d, table, id) == IF id = 0 THEN d.seq[table] + 1 ELSE id

\* INSERT of one row with primary key id; "sql" is a constraint failure
Insert(d, table, row) ==
    IF Exists(d[table], row.id)
    THEN [db |-> d, err |-> "sql"]
    ELSE [db |-> [d EXCEPT ![table] = @ \cup {row},
                           !.seq[table] = Max(@, row.id)],
          err |-> "nil"]

\* groups.name carries a unique index
NameTaken(rows, name) == \E r \in rows : r.name = name

\* a mutant of WithTransaction: the statements already run stay applied on an error
WithTransaction_NoRollback(d, r, commitFails) ==
    IF r.err # "nil" THEN [db |-> r.db, err |-> r.err]
    ELSE IF commitFails THEN [db |-> d, err |-> "sql"]
    ELSE [db |-> r.db, err |-> "nil"]

\* BaseRepository.WithTransaction: r is what fn(tx) left in the transaction and returned
WithTransaction(d, r, commitFails) ==
    IF r.err # "nil" THEN [db |-> d, err |-> r.err]
    ELSE IF commitFails THEN [db |-> d, err |-> "sql"]
    ELSE [db |-> r.db, err |-> "nil"]

\* ------------------------------------------------------------------ request bodies
Texts == {"w"}
GroupNames == {"", "g1"}
ZeroGroup == [ID |-> 0, Name |-> ""]
ZeroActivity == [ID |-> 0, Name |-> "", Description |-> "", ThumbnailURL |-> ""]
ZeroWord == [ID |-> 0, Japanese |-> "", Romaji |-> "", English |-> "", Parts |-> 0]

\* ------------------------------------------------------------------ validation
\* validate:"required" rejects the zero value of the field (0, "", false);
\* struct-typed fields are validated recursively, slices of structs are not.
GroupValidate(g) == g.ID # 0 /\ g.Name # ""

WordValidate(w) ==
    /\ w.ID # 0
    /\ w.Japanese # "" /\ w.Romaji # "" /\ w.English # ""
    /\ w.Parts >= 1

StudyActivityValidate(a) ==
    /\ a.ID # 0
    /\ a.Name # "" /\ a.Description # ""
    /\ a.ThumbnailURL = "https://x/y.jpg"

StudySessionValidate(s) ==
    /\ s.ID # 0 /\ s.GroupID # 0 /\ s.StudyActivityID # 0
    /\ GroupValidate(s.Group)
    /\ StudyActivityValidate(s.Activity)

ZeroSession == [ID |-> 0, GroupID |-> 0, StudyActivityID |-> 0,
                Group |-> ZeroGroup, Activity |-> ZeroActivity]

ZeroReview == [ID |-> 0, WordID |-> 0, StudySessionID |-> 0, Correct |-> FALSE,
               Word |-> ZeroWord, StudySession |-> ZeroSession]

WordReviewValidate(r) ==
    /\ r.ID # 0 /\ r.WordID # 0 /\ r.StudySessionID # 0
    /\ r.Correct
    /\ WordValidate(r.Word)
    /\ StudySessionValidate(r.StudySession)

\* ------------------------------------------------------------------ start state
\* initDatabase: Migrate, then Seed on an empty words table (scaled to one
\* activity, one group and one word in that group)
SeededDb ==
    [words             |-> {[id |-> 1, japanese |-> "w"]},
     groups            |-> {[id |-> 1, name |-> "g1"]},
     study_activities  |-> {[id |-> 1, name |-> "a1"]},
     word_groups       |-> {[group_id |-> 1, word_id |-> 1]},
     study_sessions    |-> {},
     word_review_items |-> {},
     seq               |-> [NoSeq EXCEPT !.words = 1, !.groups = 1, !.study_activities = 1]]

Init ==
    /\ db = SeededDb
    /\ now = 0
    /\ arg = <<>>
    /\ last = Idle

\* what the last request was and what it returned; id is the id a delete was given
Done(op, code, id) == [op |-> op, code |-> code, id |-> id]

\* ------------------------------------------------------------------ handlers on the database
\* Request bodies carry the scalar columns; "id" is left to AUTOINCREMENT here
\* and the embedded association structs stay zero.

\* WordHandler.CreateWord: binds the body and inserts it, without validation
HandlerCreateWordResult(d, w) ==
    LET r == Insert(d, "words", [id |-> InsertId(d, "words", w.ID), japanese |-> w.Japanese])
    IN  [db |-> r.db, code |-> IF r.err = "nil" THEN "201" ELSE "500"]

HandlerCreateWord ==
    \E j \in Texts :
        LET r == HandlerCreateWordResult(db, [ZeroWord EXCEPT !.Japanese = j])
        IN  /\ InsertId(db, "words", 0) <= MaxWords
            /\ db' = r.db
            /\ last' = Done("Handler.CreateWord", r.code, 0)
            /\ UNCHANGED <<now, arg>>

\* GroupHandler.CreateGroup: name lookup and insert in one transaction
HandlerCreateGroupResult(d, g) ==
    IF NameTaken(d.groups, g.Name) THEN [db |-> d, code |-> "409"]
    ELSE LET r == Insert(d, "groups", [id |-> InsertId(d, "groups", g.ID), name |-> g.Name])
         IN  [db |-> r.db, code |-> IF r.err = "nil" THEN "201" ELSE "500"]

HandlerCreateGroup ==
    \E n \in GroupNames :
        LET r == HandlerCreateGroupResult(db, [ID |-> 0, Name |-> n])
        IN  /\ InsertId(db, "groups", 0) <= MaxGroups
            /\ db' = r.db
            /\ last' = Done("Handler.CreateGroup", r.code, 0)
            /\ UNCHANGED <<now, arg>>

\* GroupHandler.AddWordToGroup
HandlerAddWordToGroupResult(d, groupID, wordID) ==
    IF wordID = 0 THEN [db |-> d, code |-> "400"]
    ELSE IF ~Exists(d.groups, groupID) THEN [db |-> d, code |-> "404"]
    ELSE IF ~Exists(d.words, wordID) THEN [db |-> d, code |-> "404"]
    ELSE IF [group_id |-> groupID, word_id |-> wordID] \in d.word_groups
         THEN [db |-> d, code |-> "409"]
    ELSE [db |-> [d EXCEPT !.word_groups = @ \cup {[group_id |-> groupID, word_id |-> wordID]}],
          code |-> "204"]

HandlerAddWordToGroup ==
    \E g \in 1..MaxGroups, w \in 0..MaxWords :
        LET r == HandlerAddWordToGroupResult(db, g, w)
        IN  /\ db' = r.db
            /\ last' = Done("Handler.AddWordToGroup", r.code, 0)
            /\ UNCHANGED <<now, arg>>

\* StudyHandler.CreateStudySession
HandlerCreateStudySessionResult(d, s, t) ==
    IF ~Exists(d.groups, s.GroupID) THEN [db |-> d, code |-> "400"]
    ELSE IF ~Exists(d.study_activities, s.StudyActivityID) THEN [db |-> d, code |-> "400"]
    ELSE LET r == Insert(d, "study_sessions",
                         [id |-> InsertId(d, "study_sessions", s.ID), group_id |-> s.GroupID,
                          study_activity_id |-> s.StudyActivityID, created_at |-> t])
         IN  [db |-> r.db, code |-> IF r.err = "nil" THEN "201" ELSE "500"]

HandlerCreateStudySession ==
    \E g \in 0..MaxGroups, a \in 0..MaxActivities :
        LET s == [ZeroSession EXCEPT !.GroupID = g, !.StudyActivityID = a]
            r == HandlerCreateStudySessionResult(db, s, now)
        IN  /\ InsertId(db, "study_sessions", 0) <= MaxSessions
            /\ db' = r.db
            /\ last' = Done("Handler.CreateStudySession", r.code, 0)
            /\ UNCHANGED <<now, arg>>

\* StudyHandler.AddWordReview: the body's "correct" is bound with binding:"required"
HandlerAddWordReviewResult(d, sessionID, wordID, correct) ==
    IF ~correct THEN [db |-> d, code |-> "400"]
    ELSE IF ~Exists(d.study_sessions, sessionID) THEN [db |-> d, code |-> "404"]
    ELSE IF ~Exists(d.words, wordID) THEN [db |-> d, code |-> "404"]
    ELSE LET r == Insert(d, "word_review_items",
                         [id |-> InsertId(d, "word_review_items", 0), word_id |-> wordID,
                          study_session_id |-> sessionID, correct |-> correct])
         IN  [db |-> r.db, code |-> IF r.err = "nil" THEN "200" ELSE "500"]

HandlerAddWordReview ==
    \E sid \in 1..MaxSessions, wid \in 0..MaxWords, c \in BOOLEAN :
        LET r == HandlerAddWordReviewResult(db, sid, wid, c)
        IN  /\ InsertId(db, "word_review_items", 0) <= MaxReviews
            /\ db' = r.db
            /\ last' = Done("Handler.AddWordReview", r.code, 0)
            /\ UNCHANGED <<now, arg>>

\* a seed file or a test fixture writes a review row directly (db.Create)
SeedWordReview ==
    \E s \in db.study_sessions, w \in db.words, c \in BOOLEAN :
        LET r == Insert(db, "word_review_items",
                        [id |-> InsertId(db, "word_review_items", 0), word_id |-> w.id,
                         study_session_id |-> s.id, correct |-> c])
        IN  /\ InsertId(db, "word_review_items", 0) <= MaxReviews
            /\ db' = r.db
            /\ last' = Idle
            /\ UNCHANGED <<now, arg>>

\* WordHandler.DeleteWord: one DELETE on words, nothing else
HandlerDeleteWordResult(d, id) ==
    [db |-> [d EXCEPT !.words = {w \in @ : w.id # id}], code |-> "204"]

HandlerDeleteWord ==
    \E id \in 1..MaxWords :
        LET r == HandlerDeleteWordResult(db, id)
        IN  /\ db' = r.db
            /\ last' = Done("Handler.DeleteWord", r.code, id)
            /\ UNCHANGED <<now, arg>>

\* GroupHandler.DeleteGroup: lookup and one DELETE on groups in a transaction
HandlerDeleteGroupResult(d, id) ==
    IF ~Exists(d.groups, id) THEN [db |-> d, code |-> "404"]
    ELSE [db |-> [d EXCEPT !.groups = {g \in @ : g.id # id}], code |-> "204"]

HandlerDeleteGroup ==
    \E id \in 1..MaxGroups :
        LET r == HandlerDeleteGroupResult(db, id)
        IN  /\ db' = r.db
            /\ last' = Done("Handler.DeleteGroup", r.code, id)
            /\ UNCHANGED <<now, arg>>

\* ------------------------------------------------------------------ transactions
\* A statement, or the commit, can fail (I/O error, locked database): fault is
\* the number of the failing statement, one past the last statement for the
\* commit, 0 for none.

\* a mutant of the statement: deleting from a table without rows is an error
DeleteAll_RowsRequired(r, table, n, fault) ==
    IF r.err # "nil" THEN r
    ELSE IF fault = n \/ r.db[table] = {} THEN [db |-> r.db, err |-> "sql"]
    ELSE [db |-> [r.db EXCEPT ![table] = {}], err |-> "nil"]

\* "DELETE FROM table" run as statement number n
DeleteAll(r, table, n, fault) ==
    IF r.err # "nil" THEN r
    ELSE IF fault = n THEN [db |-> r.db, err |-> "sql"]
    ELSE [db |-> [r.db EXCEPT ![table] = {}], err |-> "nil"]

\* a mutant of the statement: the WHERE clause is missing
DeleteWhere_All(r, table, col, id, n, fault) ==
    IF r.err # "nil" THEN r
    ELSE IF fault = n THEN [db |-> r.db, err |-> "sql"]
    ELSE [db |-> [r.db EXCEPT ![table] = {}], err |-> "nil"]

\* "DELETE FROM table WHERE col = id" run as statement number n
DeleteWhere(r, table, col, id, n, fault) ==
    IF r.err # "nil" THEN r
    ELSE IF fault = n THEN [db |-> r.db, err |-> "sql"]
    ELSE [db |-> [r.db EXCEPT ![table] = {x \in @ : x[col] # id}], err |-> "nil"]

Begin(d) == [db |-> d, err |-> "nil"]

\* a mutant of the reset: the sessions are left in place
StudyRepositoryResetStudyHistory_KeepSessions(d, fault) ==
    WithTransaction(d, DeleteAll(Begin(d), "word_review_items", 1, fault), fault = 3)

\* StudyRepository.ResetStudyHistory
StudyRepositoryResetStudyHistory(d, fault) ==
    WithTransaction(d,
        DeleteAll(DeleteAll(Begin(d), "word_review_items", 1, fault),
                  "study_sessions", 2, fault),
        fault = 3)

\* SettingsHandler.ResetHistory
SettingsHandlerResetHistory(d, fault) ==
    LET r == WithTransaction(d,
                 DeleteAll(DeleteAll(Begin(d), "word_review_items", 1, fault),
                           "study_sessions", 2, fault),
                 fault = 3)
    IN  [db |-> r.db, code |-> IF r.err = "nil" THEN "200" ELSE "500"]

\* SettingsHandler.FullReset
RECURSIVE DeleteTables(_, _, _, _)
DeleteTables(r, tables, n, fault) ==
    IF n > Len(tables) THEN r
    ELSE DeleteTables(DeleteAll(r, tables[n], n, fault), tables, n + 1, fault)

\* a mutant of the table list: the memberships are left in place
FullResetTables_NoLinks == <<"word_review_items", "study_sessions", "groups", "words">>

FullResetTables == <<"word_review_items", "study_sessions", "word_groups", "groups", "words">>

\* a mutant of the full reset: a failure leaves the statements already run applied
SettingsHandlerFullReset_NoRollback(d, fault) ==
    LET r == WithTransaction_NoRollback(d, DeleteTables(Begin(d), FullResetTables, 1, fault),
                                        fault = Len(FullResetTables) + 1)
    IN  [db |-> r.db, code |-> IF r.err = "nil" THEN "200" ELSE "500"]

SettingsHandlerFullReset(d, fault) ==
    LET r == WithTransaction(d, DeleteTables(Begin(d), FullResetTables, 1, fault),
                             fault = Len(FullResetTables) + 1)
    IN  [db |-> r.db, code |-> IF r.err = "nil" THEN "200" ELSE "500"]

\* WordRepository.Delete (repository/word.go): its first statement is
\* DELETE FROM words WHERE word_id = ?, and words has no column word_id
WordRepositoryDelete(d, id, fault) ==
    WithTransaction(d, [db |-> d, err |-> "sql"], fault = 4)

\* WordRepository.Delete (the variant with tx.Exec on word_groups)
WordRepositoryDeleteExec(d, id, fault) ==
    WithTransaction(d,
        DeleteWhere(DeleteWhere(DeleteWhere(Begin(d), "word_groups", "word_id", id, 1, fault),
                                "word_review_items", "word_id", id, 2, fault),
                    "words", "id", id, 3, fault),
        fault = 4)

\* a mutant of the delete: the sessions of the group go with it
GroupRepositoryDelete_Sessions(d, id, fault) ==
    WithTransaction(d,
        DeleteWhere(DeleteWhere(DeleteWhere(Begin(d), "word_groups", "group_id", id, 1, fault),
                                "study_sessions", "group_id", id, 1, fault),
                    "groups", "id", id, 2, fault),
        fault = 3)

\* GroupRepository.Delete
GroupRepositoryDelete(d, id, fault) ==
    WithTransaction(d,
        DeleteWhere(DeleteWhere(Begin(d), "word_groups", "group_id", id, 1, fault),
                    "groups", "id", id, 2, fault),
        fault = 3)

\* ------------------------------------------------------------------ services
\* a repository error is wrapped: ErrNotFound as NOT_FOUND, the rest as INTERNAL_ERROR
Wrap(r, err) ==
    [db |-> r.db,
     code |-> IF err = "nil" THEN "nil"
              ELSE IF err = "ErrNotFound" THEN "NOT_FOUND" ELSE "INTERNAL_ERROR"]

\* StudyRepository.CreateStudySession
StudyRepositoryCreateStudySession(d, s, t) ==
    IF ~StudySessionValidate(s) THEN [db |-> d, err |-> "ErrInvalidInput"]
    ELSE Insert(d, "study_sessions",
                [id |-> InsertId(d, "study_sessions", s.ID), group_id |-> s.GroupID,
                 study_activity_id |-> s.StudyActivityID, created_at |-> t])

\* StudyService.CreateStudySession
StudyServiceCreateStudySession(d, s, t) ==
    IF ~Exists(d.groups, s.GroupID) THEN [db |-> d, code |-> "NOT_FOUND"]
    ELSE IF ~Exists(d.study_activities, s.StudyActivityID) THEN [db |-> d, code |-> "NOT_FOUND"]
    ELSE LET r == StudyRepositoryCreateStudySession(d, s, t)
         IN  [db |-> r.db, code |-> IF r.err = "nil" THEN "nil" ELSE "INTERNAL_ERROR"]

\* StudyRepository.AddWordReview
StudyRepositoryAddWordReview(d, r) ==
    IF ~WordReviewValidate(r) THEN [db |-> d, err |-> "ErrInvalidInput"]
    ELSE Insert(d, "word_review_items",
                [id |-> InsertId(d, "word_review_items", r.ID), word_id |-> r.WordID,
                 study_session_id |-> r.StudySessionID, correct |-> r.Correct])

\* a mutant of the service: the word is not looked up
StudyServiceAddWordReview_NoWordCheck(d, sessionID, review) ==
    IF ~Exists(d.study_sessions, sessionID) THEN [db |-> d, code |-> "NOT_FOUND"]
    ELSE LET r == StudyRepositoryAddWordReview(d, [review EXCEPT !.StudySessionID = sessionID])
         IN  [db |-> r.db, code |-> IF r.err = "nil" THEN "nil" ELSE "INTERNAL_ERROR"]

\* StudyService.AddWordReview
StudyServiceAddWordReview(d, sessionID, review) ==
    IF ~Exists(d.study_sessions, sessionID) THEN [db |-> d, code |-> "NOT_FOUND"]
    ELSE IF ~Exists(d.words, review.WordID) THEN [db |-> d, code |-> "NOT_FOUND"]
    ELSE LET r == StudyRepositoryAddWordReview(d, [review EXCEPT !.StudySessionID = sessionID])
         IN  [db |-> r.db, code |-> IF r.err = "nil" THEN "nil" ELSE "INTERNAL_ERROR"]

\* WordService.DeleteWord over either WordRepository.Delete
WordServiceDeleteWord(d, id, fault) ==
    LET r == WordRepositoryDelete(d, id, fault) IN Wrap(r, r.err)

WordServiceDeleteWordExec(d, id, fault) ==
    LET r == WordRepositoryDeleteExec(d, id, fault) IN Wrap(r, r.err)

\* GroupService.DeleteGroup
GroupServiceDeleteGroup(d, id, fault) ==
    LET r == GroupRepositoryDelete(d, id, fault) IN Wrap(r, r.err)

\* StudyService.ResetStudyHistory
StudyServiceResetStudyHistory(d, fault) ==
    LET r == StudyRepositoryResetStudyHistory(d, fault) IN Wrap(r, r.err)

\* ------------------------------------------------------------------ requests
ServiceCreateStudySession ==
    \E id \in 0..1, g \in 0..MaxGroups, a \in 0..MaxActivities :
        LET s == [ZeroSession EXCEPT !.ID = id, !.GroupID = g, !.StudyActivityID = a]
            r == StudyServiceCreateStudySession(db, s, now)
        IN  /\ InsertId(db, "study_sessions", id) <= MaxSessions
            /\ db' = r.db
            /\ last' = Done("Service.CreateStudySession", r.code, 0)
            /\ UNCHANGED <<now, arg>>

ServiceAddWordReview ==
    \E sid \in 0..MaxSessions, id \in 0..1, wid \in 0..MaxWords, c \in BOOLEAN :
        LET review == [ZeroReview EXCEPT !.ID = id, !.WordID = wid, !.Correct = c]
            r == StudyServiceAddWordReview(db, sid, review)
        IN  /\ InsertId(db, "word_review_items", id) <= MaxReviews
            /\ db' = r.db
            /\ last' = Done("Service.AddWordReview", r.code, 0)
            /\ UNCHANGED <<now, arg>>

ServiceDeleteWord ==
    \E id \in 1..MaxWords, fault \in 0..4 :
        LET r == WordServiceDeleteWord(db, id, fault)
        IN  /\ db' = r.db
            /\ last' = Done("Service.DeleteWord", r.code, id)
            /\ UNCHANGED <<now, arg>>

ServiceDeleteWordExec ==
    \E id \in 1..MaxWords, fault \in 0..4 :
        LET r == WordServiceDeleteWordExec(db, id, fault)
        IN  /\ db' = r.db
            /\ last' = Done("Service.DeleteWordExec", r.code, id)
            /\ UNCHANGED <<now, arg>>

ServiceDeleteGroup ==
    \E id \in 1..MaxGroups, fault \in 0..3 :
        LET r == GroupServiceDeleteGroup(db, id, fault)
        IN  /\ db' = r.db
            /\ last' = Done("Service.DeleteGroup", r.code, id)
            /\ UNCHANGED <<now, arg>>

ServiceResetStudyHistory ==
    \E fault \in 0..3 :
        LET r == StudyServiceResetStudyHistory(db, fault)
        IN  /\ db' = r.db
            /\ last' = Done("Service.ResetStudyHistory", r.code, 0)
            /\ UNCHANGED <<now, arg>>

HandlerResetHistory ==
    \E fault \in 0..3 :
        LET r == SettingsHandlerResetHistory(db, fault)
        IN  /\ db' = r.db
            /\ last' = Done("Handler.ResetHistory", r.code, 0)
            /\ UNCHANGED <<now, arg>>

HandlerFullReset ==
    \E fault \in 0..(Len(FullResetTables) + 1) :
        LET r == SettingsHandlerFullReset(db, fault)
        IN  /\ db' = r.db
            /\ last' = Done("Handler.FullReset", r.code, 0)
            /\ UNCHANGED <<now, arg>>

Next ==
    \/ HandlerCreateWord
    \/ HandlerCreateGroup
    \/ HandlerAddWordToGroup
    \/ HandlerCreateStudySession
    \/ HandlerAddWordReview
    \/ SeedWordReview
    \/ HandlerDeleteWord
    \/ HandlerDeleteGroup
    \/ ServiceCreateStudySession
    \/ ServiceAddWordReview
    \/ ServiceDeleteWord
    \/ ServiceDeleteWordExec
    \/ ServiceDeleteGroup
    \/ ServiceResetStudyHistory
    \/ HandlerResetHistory
    \/ HandlerFullReset

Spec == Init /\ [][Next]_vars

\* ------------------------------------------------------------------ streak runs
\* Session rows as the store holds them: ids grow with the creation time.
StreakRows(k, f) ==
    {[id |-> i, group_id |-> 1, study_activity_id |-> 1, created_at |-> f[i]] : i \in 1..k}

InitStreak ==
    /\ \E k \in 0..MaxStreakSessions : \E f \in [1..k -> Times] :
          /\ \A i \in 1..k : \A j \in 1..k : i <= j => f[i] <= f[j]
          /\ db = [EmptyDb EXCEPT !.study_sessions = StreakRows(k, f),
                                  !.seq.study_sessions = k]
          /\ now \in {t \in Times : \A i \in 1..k : f[i] <= t}
    /\ arg = <<>>
    /\ last = Idle

CallGetStudyStreak ==
    /\ last.op = "none"
    /\ last' = [op |-> "GetStudyStreak", ret |-> GetStudyStreak(db, now)]
    /\ UNCHANGED <<db, now, arg>>

CallGetQuickStats ==
    /\ last.op = "none"
    /\ last' = [op |-> "GetQuickStats", ret |-> GetQuickStats(db, now)]
    /\ UNCHANGED <<db, now, arg>>

NextStreak == CallGetStudyStreak \/ CallGetQuickStats

SpecStreak == InitStreak /\ [][NextStreak]_vars

\* ------------------------------------------------------------------ statistics runs
\* a store with two groups and one word, k sessions and t reviews of which the
\* first c are correct
StatsDb(k, f, c, t) ==
    [SeededDb EXCEPT
        !.groups = @ \cup {[id |-> 2, name |-> "g2"]},
        !.study_sessions = {[id |-> i, group_id |-> f[i], study_activity_id |-> 1,
                             created_at |-> 0] : i \in 1..k},
        !.word_review_items = {[id |-> i, word_id |-> 1, study_session_id |-> 1,
                                correct |-> i <= c] : i \in 1..t},
        !.seq = [@ EXCEPT !.groups = 2, !.study_sessions = k, !.word_review_items = t]]

InitStats ==
    /\ now = 0
    /\ arg = <<>>
    /\ last = Idle
    /\ \E k \in 0..2 : \E f \in [1..k -> 1..2] :
       \E t \in 0..MaxStatReviews : \E c \in 0..t :
          /\ k = 0 => t = 0
          /\ db = StatsDb(k, f, c, t)

NextStats == CallGetQuickStats

SpecStats == InitStats /\ [][NextStats]_vars

\* ------------------------------------------------------------------ success-rate runs
RECURSIVE SeqsUpTo(_, _)
SeqsUpTo(S, n) ==
    IF n = 0 THEN {<<>>}
    ELSE LET shorter == SeqsUpTo(S, n - 1)
         IN  shorter \cup {Append(q, x) : q \in {p \in shorter : Len(p) = n - 1}, x \in S}

\* t reviews of which the first c are correct
Run(c, t) == [i \in 1..t |-> [Correct |-> i <= c]]

ReviewLists ==
    SeqsUpTo({[Correct |-> b] : b \in BOOLEAN}, MaxListLen)
        \cup {Run(c, t) : c \in 0..MaxRunLen, t \in 1..MaxRunLen}

SessionLists == SeqsUpTo({[Reviews |-> rs] : rs \in SeqsUpTo({[Correct |-> b] : b \in BOOLEAN}, 2)},
                         MaxGroupSessions)

InitRate ==
    /\ db = EmptyDb
    /\ now = 0
    /\ last = Idle
    /\ \/ \E rs \in ReviewLists : arg = [kind |-> "Word", Reviews |-> rs]
       \/ \E rs \in ReviewLists : arg = [kind |-> "StudySession", Reviews |-> rs]
       \/ \E ss \in SessionLists : arg = [kind |-> "Group", Sessions |-> ss]

CallWordGetSuccessRate ==
    /\ last.op = "none" /\ arg.kind = "Word"
    /\ last' = [op |-> "Word.GetSuccessRate", ret |-> WordGetSuccessRate(arg)]
    /\ UNCHANGED <<db, now, arg>>

CallStudySessionGetSuccessRate ==
    /\ last.op = "none" /\ arg.kind = "StudySession"
    /\ last' = [op |-> "StudySession.GetSuccessRate", ret |-> StudySessionGetSuccessRate(arg)]
    /\ UNCHANGED <<db, now, arg>>

CallGroupGetSuccessRate ==
    /\ last.op = "none" /\ arg.kind = "Group"
    /\ last' = [op |-> "Group.GetSuccessRate", ret |-> GroupGetSuccessRate(arg)]
    /\ UNCHANGED <<db, now, arg>>

NextRate ==
    \/ CallWordGetSuccessRate
    \/ CallStudySessionGetSuccessRate
    \/ CallGroupGetSuccessRate

SpecRate == InitRate /\ [][NextRate]_vars

\* ------------------------------------------------------------------ claims
StreakDone == last.op = "GetStudyStreak"
QuickDone == last.op = "GetQuickStats"

SessionDays == {DayOf(s.created_at) : s \in db.study_sessions}
SessionsOn(day) == {s \in db.study_sessions : DayOf(s.created_at) = day}
Today == DayOf(now)

\* one session on each of the days D, D-1, D-2, neighbours at most one day apart
ThreeDayRun ==
    /\ \A k \in 0..2 : Cardinality(SessionsOn(Today - k)) = 1
    /\ \A k \in 0..1 : \A s \in SessionsOn(Today - k) : \A q \in SessionsOn(Today - k - 1) :
          s.created_at - q.created_at <= TicksPerDay

C1Case ==
    /\ Today >= 2
    /\ ThreeDayRun
    /\ \/ SessionDays = {Today, Today - 1, Today - 2}
       \/ /\ Today >= 4
          /\ SessionDays = {Today, Today - 1, Today - 2, Today - 4}
          /\ Cardinality(SessionsOn(Today - 4)) = 1

\* C1 (as claimed): with sessions on the days D, D-1, D-2 and now on day D the
\* streak is 3, from GetStudyStreak and in quick stats, also when a further
\* session lies on day D-4.
C1_StreakIsThree ==
    /\ (StreakDone /\ C1Case) => last.ret = 3
    /\ (QuickDone /\ C1Case) => last.ret.study_streak_days = 3

MostRecent == SetMax({s.created_at : s \in db.study_sessions})

C2Case == db.study_sessions # {} /\ now - MostRecent > TicksPerDay

\* C2: when the most recent session is more than one day before now,
\* GetStudyStreak (and the streak in quick stats) is 0, whatever older sessions exist.
C2_StaleStreakIsZero ==
    /\ (StreakDone /\ C2Case) => last.ret = 0
    /\ (QuickDone /\ C2Case) => last.ret.study_streak_days = 0

C2_Witness ==
    /\ StreakDone /\ C2Case /\ last.ret = 0
    /\ Cardinality(db.study_sessions) >= 3
    /\ \E s \in db.study_sessions : \E q \in db.study_sessions :
          s.created_at = MostRecent /\ s.created_at - q.created_at = TicksPerDay

\* C3 (as claimed): the streak never exceeds the number of distinct calendar
\* days that contain a session.
C3_StreakAtMostDistinctDays ==
    StreakDone => last.ret <= Cardinality(SessionDays)

RateOps == {"Word.GetSuccessRate", "StudySession.GetSuccessRate", "Group.GetSuccessRate"}

\* the reviews of the struct the method was called on, as (position, review) pairs
ArgReviews ==
    IF arg.kind = "Group"
    THEN {<<i, j>> : i \in 1..MaxGroupSessions, j \in 1..MaxListLen} \cap
         {p \in (1..Len(arg.Sessions)) \X (1..MaxListLen) : p[2] <= Len(arg.Sessions[p[1]].Reviews)}
    ELSE {<<1, j>> : j \in 1..Len(arg.Reviews)}

ArgCorrect(p) ==
    IF arg.kind = "Group" THEN arg.Sessions[p[1]].Reviews[p[2]].Correct
    ELSE arg.Reviews[p[2]].Correct

ArgTotal == Cardinality(ArgReviews)
ArgCorrectCount == Cardinality({p \in ArgReviews : ArgCorrect(p)})

\* x is exactly a/b when float64 can hold a/b, and has the integer part of a/b
\* when it cannot
IsQuotient(x, a, b) ==
    IF a = 0 THEN x = FloatZero
    ELSE LET q == Quotient(a, b)
         IN  IF q.guard = 0 /\ ~q.sticky
             THEN x = [kind |-> "num", sig |-> q.sig, exp |-> q.exp]
             ELSE x.kind = "num" /\ FloatToInt(x) = a \div b

\* C4 (as claimed): GetSuccessRate of a Word, a StudySession or a Group is 0
\* when there are no reviews and otherwise exactly correct*100/total; it is
\* never NaN (no 0/0).
C4_SuccessRateTotal ==
    last.op \in RateOps =>
        /\ last.ret.kind \in {"zero", "num"}
        /\ ArgTotal = 0 => last.ret = FloatZero
        /\ ArgTotal > 0 => IsQuotient(last.ret, ArgCorrectCount * 100, ArgTotal)

\* ------------------------------------------------------------------ quick stats
ReviewsOf(d) == d.word_review_items
CorrectOf(d) == {r \in d.word_review_items : r.correct}

\* C7 (as claimed): GetQuickStats returns the number of session rows, the
\* number of distinct groups that a session targets, and correct*100/total
\* over all review rows, 0 when there is no review.
C7_QuickStats ==
    QuickDone =>
        /\ last.ret.total_study_sessions = Cardinality(db.study_sessions)
        /\ last.ret.total_active_groups =
              Cardinality({g \in Ids(db.groups) : \E x \in db.study_sessions : x.group_id = g})
        /\ ReviewsOf(db) = {} => last.ret.success_rate = 0
        /\ ReviewsOf(db) # {} =>
              last.ret.success_rate =
                  (Cardinality(CorrectOf(db)) * 100) \div Cardinality(ReviewsOf(db))

\* ------------------------------------------------------------------ referential guard
SessionRequests ==
    {[ZeroSession EXCEPT !.ID = id, !.GroupID = g, !.StudyActivityID = a] :
        id \in 0..1, g \in 0..MaxGroups, a \in 0..MaxActivities}

ReviewRequests ==
    {[ZeroReview EXCEPT !.ID = id, !.WordID = w, !.Correct = c] :
        id \in 0..1, w \in 0..MaxWords, c \in BOOLEAN}

ReviewRow(d, sid, w, c) ==
    [id |-> d.seq.word_review_items + 1, word_id |-> w, study_session_id |-> sid, correct |-> c]

\* C6 (as claimed): a review of an existing word in an existing session is
\* accepted with either grading, through the handler and through the service,
\* and adds exactly one row that carries the caller's grading.
C6_ReviewStoredVerbatim ==
    \A sid \in Ids(db.study_sessions), w \in Ids(db.words), c \in BOOLEAN :
        LET h == HandlerAddWordReviewResult(db, sid, w, c)
            v == StudyServiceAddWordReview(db, sid, [ZeroReview EXCEPT !.WordID = w, !.Correct = c])
            want == db.word_review_items \cup {ReviewRow(db, sid, w, c)}
        IN  /\ h.code = "200" /\ h.db.word_review_items = want
            /\ v.code = "nil" /\ v.db.word_review_items = want

\* ------------------------------------------------------------------ word delete
\* the store without word id, its memberships and its reviews
WithoutWord(d, id) ==
    [d EXCEPT !.words = {w \in @ : w.id # id},
              !.word_groups = {m \in @ : m.word_id # id},
              !.word_review_items = {r \in @ : r.word_id # id}]

\* C8 (as claimed): deleting an existing word, with no statement failing,
\* succeeds and leaves the store without the word, its memberships and its
\* reviews and with every other row as it was; the word is then not found.
\* This is asked of both WordRepository.Delete variants behind
\* WordService.DeleteWord and of WordHandler.DeleteWord.
C8_WordDeleteCascades ==
    \A w \in Ids(db.words) :
        LET a == WordServiceDeleteWord(db, w, 0)
            b == WordServiceDeleteWordExec(db, w, 0)
            h == HandlerDeleteWordResult(db, w)
        IN  /\ a.code = "nil" /\ a.db = WithoutWord(db, w)
            /\ b.code = "nil" /\ b.db = WithoutWord(db, w)
            /\ h.code = "204" /\ h.db = WithoutWord(db, w)

\* ------------------------------------------------------------------ atomic deletes
\* C9: in every reachable state, a word delete or a group delete in which a
\* statement or the commit fails returns an error and hands back the store
\* exactly as it was: no membership, review, word or group row is gone.
C9_DeleteAllOrNothing ==
    /\ \A w \in 1..MaxWords, fault \in 1..4 :
          LET a == WordServiceDeleteWord(db, w, fault)
              b == WordServiceDeleteWordExec(db, w, fault)
          IN  /\ a.code = "INTERNAL_ERROR" /\ a.db = db
              /\ b.code = "INTERNAL_ERROR" /\ b.db = db
    /\ \A g \in 1..MaxGroups, fault \in 1..3 :
          LET r == GroupServiceDeleteGroup(db, g, fault)
          IN  r.code = "INTERNAL_ERROR" /\ r.db = db

\* a word delete has failed and the word still has a membership and a review
C9_Witness ==
    /\ last.op = "Service.DeleteWordExec"
    /\ last.code = "INTERNAL_ERROR"
    /\ Exists(db.words, last.id)
    /\ \E m \in db.word_groups : m.word_id = last.id
    /\ \E r \in db.word_review_items : r.word_id = last.id

\* ------------------------------------------------------------------ history reset
ResetDone ==
    \/ last.op = "Service.ResetStudyHistory" /\ last.code = "nil"
    \/ last.op = "Handler.ResetHistory" /\ last.code = "200"

\* C10: every successful step of StudyService.ResetStudyHistory or of
\* SettingsHandler.ResetHistory ends with no review row and no session row,
\* and with the words, groups, memberships and study activities it started with.
C10_HistoryResetFrame ==
    [][ResetDone' =>
           /\ db'.word_review_items = {}
           /\ db'.study_sessions = {}
           /\ db'.words = db.words
           /\ db'.groups = db.groups
           /\ db'.word_groups = db.word_groups
           /\ db'.study_activities = db.study_activities
      ]_vars

\* a reset has emptied a history that had a session and a review, beside a
\* word, a group and a membership
C10_Witness ==
    /\ ResetDone
    /\ db.seq.study_sessions > 0 /\ db.seq.word_review_items > 0
    /\ db.study_sessions = {} /\ db.word_review_items = {}
    /\ db.words # {} /\ db.groups # {} /\ db.word_groups # {}

\* ------------------------------------------------------------------ full reset
FullResetDone == last.op = "Handler.FullReset" /\ last.code = "200"

C12_ResetAtomic ==
    /\ \A fault \in 1..(Len(FullResetTables) + 1) :
          LET r == SettingsHandlerFullReset(db, fault)
          IN  r.code = "500" /\ r.db = db
    /\ \A fault \in 1..3 :
          LET h == SettingsHandlerResetHistory(db, fault)
              s == StudyServiceResetStudyHistory(db, fault)
          IN  /\ h.code = "500" /\ h.db = db
              /\ s.code = "INTERNAL_ERROR" /\ s.db = db

\* a full reset has failed on a store that holds a review, a session, a
\* membership, a group and a word, and all of them are still there
C12_Witness ==
    /\ last.op = "Handler.FullReset" /\ last.code = "500"
    /\ db.word_review_items # {} /\ db.study_sessions # {}
    /\ db.word_groups # {} /\ db.groups # {} /\ db.words # {}

\* ------------------------------------------------------------------ reset idempotence
HistoryTables == {"word_review_items", "study_sessions"}

\* C13: in every reachable state, a history reset (handler or service) and a
\* full reset succeed when run on their own result and leave that result as it
\* is; run on a store whose history (or whole content) is already empty they
\* report success and change nothing.
C13_ResetIdempotent ==
    /\ LET h1 == SettingsHandlerResetHistory(db, 0)
           h2 == SettingsHandlerResetHistory(h1.db, 0)
       IN  h1.code = "200" /\ h2.code = "200" /\ h2.db = h1.db
    /\ LET s1 == StudyServiceResetStudyHistory(db, 0)
           s2 == StudyServiceResetStudyHistory(s1.db, 0)
       IN  s1.code = "nil" /\ s2.code = "nil" /\ s2.db = s1.db
    /\ LET f1 == SettingsHandlerFullReset(db, 0)
           f2 == SettingsHandlerFullReset(f1.db, 0)
       IN  f1.code = "200" /\ f2.code = "200" /\ f2.db = f1.db
    /\ (\A t \in HistoryTables : db[t] = {}) =>
           /\ SettingsHandlerResetHistory(db, 0) = [db |-> db, code |-> "200"]
           /\ StudyServiceResetStudyHistory(db, 0) = [db |-> db, code |-> "nil"]
    /\ (\A i \in 1..Len(FullResetTables) : db[FullResetTables[i]] = {}) =>
           SettingsHandlerFullReset(db, 0) = [db |-> db, code |-> "200"]

\* a history reset has succeeded on a store in which no session and no review
\* was ever written
C13_Witness ==
    /\ ResetDone
    /\ db.seq.study_sessions = 0 /\ db.seq.word_review_items = 0
    /\ db.study_sessions = {} /\ db.word_review_items = {}

\* ------------------------------------------------------------------ listings
MaxItems == 5
MaxPage == 4
MaxPageSize == 3

Min(a, b) == IF a <= b THEN a ELSE b

\* r.db.Model(&T{}): a statement on one table without clauses. The *gorm.DB it
\* returns is not a fresh session: chain methods called on it (Offset, Limit,
\* Order) add their clause to this one statement, and the clause stays for
\* every later call on the same value.
Model(table) == [table |-> table, limit |-> -1, offset |-> -1, order |-> "rowid"]

Offset(stmt, n) == [stmt EXCEPT !.offset = n]

Limit(stmt, n) == [stmt EXCEPT !.limit = n]

Order(stmt, o) == [stmt EXCEPT !.order = o]

\* the ids of a table in rowid order (a SELECT without ORDER BY on SQLite)
RECURSIVE OrderRowid(_)
OrderRowid(rows) ==
    IF rows = {} THEN <<>>
    ELSE LET top == CHOOSE r \in rows : \A q \in rows : r.id <= q.id
         IN  <<top.id>> \o OrderRowid(rows \ {top})

\* the ids of a table under ORDER BY created_at DESC
RECURSIVE OrderCreatedAtDescIds(_)
OrderCreatedAtDescIds(rows) ==
    IF rows = {} THEN <<>>
    ELSE LET top == CHOOSE r \in rows : \A q \in rows :
                        \/ q.created_at < r.created_at
                        \/ (q.created_at = r.created_at /\ q.id <= r.id)
         IN  <<top.id>> \o OrderCreatedAtDescIds(rows \ {top})

Ordered(rows, order) ==
    IF order = "created_at DESC" THEN OrderCreatedAtDescIds(rows) ELSE OrderRowid(rows)

\* what LIMIT/OFFSET keep of a result: gorm writes OFFSET only for offset > 0
\* and no LIMIT for a negative limit
Window(result, stmt) ==
    LET lo == Max(stmt.offset, 0)
        hi == IF stmt.limit < 0 THEN Len(result) ELSE Min(Len(result), lo + stmt.limit)
    IN  SubSeq(result, lo + 1, hi)

\* Find(&items) on a statement: SELECT * with the statement's clauses
Find(d, stmt) == Window(Ordered(d[stmt.table], stmt.order), stmt)

\* Count(&total) on a statement: SELECT count(*) with the statement's clauses,
\* ORDER BY dropped. The aggregate is a result of one row; LIMIT/OFFSET apply
\* to that result, and when it is not exactly one row gorm stores RowsAffected.
Count(d, stmt) ==
    LET result == Window(<<Cardinality(d[stmt.table])>>, stmt)
    IN  IF Len(result) = 1 THEN result[1] ELSE Len(result)

\* BaseRepository.Paginate: counts, then adds OFFSET and LIMIT to the statement
\* it was given and returns that same statement
Paginate(stmt, params) ==
    Limit(Offset(stmt, (params.Page - 1) * params.PageSize), params.PageSize)

\* totalPages := (int(total) + params.PageSize - 1) / params.PageSize
TotalPagesOf(total, pageSize) == (total + pageSize - 1) \div pageSize

PaginatedResult(items, total, params) ==
    [Items |-> items, TotalItems |-> total, Page |-> params.Page,
     PageSize |-> params.PageSize, TotalPages |-> TotalPagesOf(total, params.PageSize)]

\* WordRepository.List, GroupRepository.List, StudyRepository.ListStudySessions:
\* query is the statement Paginate and Order have changed when the total is counted
RepositoryList(d, table, order, params) ==
    LET query == Order(Paginate(Model(table), params), order)
    IN  PaginatedResult(Find(d, query), Count(d, query), params)

WordRepositoryList(d, params) == RepositoryList(d, "words", "rowid", params)

GroupRepositoryList(d, params) == RepositoryList(d, "groups", "rowid", params)

StudyRepositoryListStudySessions(d, params) ==
    RepositoryList(d, "study_sessions", "created_at DESC", params)

\* NewPaginatedResult
NewPaginatedResult(items, total, page, pageSize) ==
    [Items |-> items, TotalItems |-> total, Page |-> page, PageSize |-> pageSize,
     TotalPages |-> TotalPagesOf(total, pageSize)]

\* WordService.ListWords
WordServiceListWords(d, params) ==
    LET result == WordRepositoryList(d, params)
    IN  NewPaginatedResult(result.Items, result.TotalItems, params.Page, params.PageSize)

\* middleware.NewPaginatedResponse
NewPaginatedResponse(items, totalItems, params) ==
    LET totalPages == TotalPagesOf(totalItems, params.PageSize)
    IN  [items |-> items,
         pagination |-> [current_page |-> params.Page,
                         total_pages |-> IF totalPages < 1 THEN 1 ELSE totalPages,
                         total_items |-> totalItems,
                         items_per_page |-> params.PageSize]]

\* the ListWords handler over the service
ListWords(d, params) ==
    LET r == WordServiceListWords(d, params)
    IN  NewPaginatedResponse(r.Items, r.TotalItems, params)

\* a store with n rows in each listed table; session i is created at time i
ListDb(n) ==
    [EmptyDb EXCEPT
        !.words = {[id |-> i, japanese |-> "w"] : i \in 1..n},
        !.groups = {[id |-> i, name |-> "g" \o ToString(i)] : i \in 1..n},
        !.study_sessions = {[id |-> i, group_id |-> 1, study_activity_id |-> 1,
                             created_at |-> i] : i \in 1..n},
        !.seq = [NoSeq EXCEPT !.words = n, !.groups = n, !.study_sessions = n]]

\* PaginationMiddleware hands on page >= 1 and 1 <= page_size <= 100
InitList ==
    /\ \E n \in 0..MaxItems : db = ListDb(n)
    /\ \E p \in 1..MaxPage, ps \in 1..MaxPageSize : arg = [Page |-> p, PageSize |-> ps]
    /\ now = 0
    /\ last = Idle

CallWordRepositoryList ==
    /\ last.op = "none"
    /\ last' = [op |-> "WordRepository.List", ret |-> WordRepositoryList(db, arg)]
    /\ UNCHANGED <<db, now, arg>>

CallGroupRepositoryList ==
    /\ last.op = "none"
    /\ last' = [op |-> "GroupRepository.List", ret |-> GroupRepositoryList(db, arg)]
    /\ UNCHANGED <<db, now, arg>>

CallListStudySessions ==
    /\ last.op = "none"
    /\ last' = [op |-> "StudyRepository.ListStudySessions",
                ret |-> StudyRepositoryListStudySessions(db, arg)]
    /\ UNCHANGED <<db, now, arg>>

CallWordServiceListWords ==
    /\ last.op = "none"
    /\ last' = [op |-> "WordService.ListWords", ret |-> WordServiceListWords(db, arg)]
    /\ UNCHANGED <<db, now, arg>>

CallListWords ==
    /\ last.op = "none"
    /\ last' = [op |-> "ListWords", ret |-> ListWords(db, arg)]
    /\ UNCHANGED <<db, now, arg>>

NextList ==
    \/ CallWordRepositoryList
    \/ CallGroupRepositoryList
    \/ CallListStudySessions
    \/ CallWordServiceListWords
    \/ CallListWords

SpecList == InitList /\ [][NextList]_vars

\* ------------------------------------------------------------------ pagination
RepoListOps ==
    {"WordRepository.List", "GroupRepository.List", "StudyRepository.ListStudySessions"}

\* the full result set a listing pages through, in the listing's order
FullSet(op) ==
    IF op = "StudyRepository.ListStudySessions"
    THEN Ordered(db.study_sessions, "created_at DESC")
    ELSE IF op = "GroupRepository.List" THEN Ordered(db.groups, "rowid")
    ELSE Ordered(db.words, "rowid")

\* positions [(page-1)*pageSize, page*pageSize) of a sequence, counted from 0
PageSlice(full, page, pageSize) ==
    SubSeq(full, (page - 1) * pageSize + 1, Min(Len(full), page * pageSize))

ListItemsRight ==
    last.op \in RepoListOps =>
        last.ret.Items = PageSlice(FullSet(last.op), arg.Page, arg.PageSize)

\* C14: whenever a repository List has returned for page >= 1 and
\* pageSize >= 1, its items are the positions [(page-1)*pageSize, page*pageSize)
\* of the full ordered result set and its TotalItems is the size of that set.
C14_ListPage ==
    last.op \in RepoListOps =>
        /\ last.ret.Items = PageSlice(FullSet(last.op), arg.Page, arg.PageSize)
        /\ last.ret.TotalItems = Len(FullSet(last.op))

\* ceil(a / b) for a >= 0 and b >= 1: the least k with k * b >= a
Ceil(a, b) == CHOOSE k \in 0..a : k * b >= a /\ (k = 0 \/ (k - 1) * b < a)

\* C15: whenever a listing has returned, the total_pages it reports is
\* ceil(total_items / pageSize) of the total_items it reports (0 for 0 items),
\* and for one request the repository result, the service result and the
\* envelope sent to the client carry the same total_pages.
C15_TotalPages ==
    /\ last.op \in RepoListOps \cup {"WordService.ListWords"} =>
           last.ret.TotalPages = Ceil(last.ret.TotalItems, arg.PageSize)
    /\ last.op = "ListWords" =>
           /\ last.ret.pagination.total_pages =
                  Ceil(last.ret.pagination.total_items, arg.PageSize)
           /\ last.ret.pagination.total_pages = WordServiceListWords(db, arg).TotalPages
           /\ last.ret.pagination.total_pages = WordRepositoryList(db, arg).TotalPages

\* the repository listing an operation name stands for
ListFor(op, params) ==
    IF op = "StudyRepository.ListStudySessions" THEN StudyRepositoryListStudySessions(db, params)
    ELSE IF op = "GroupRepository.List" THEN GroupRepositoryList(db, params)
    ELSE WordRepositoryList(db, params)

\* C16: whenever a repository List has returned for the page after the last
\* one (page = total_pages + 1, total_pages as reported for page 1 with the
\* same page size), its item list is empty and its TotalItems and TotalPages
\* are those reported for page 1.
C16_PageAfterLast ==
    last.op \in RepoListOps =>
        LET first == ListFor(last.op, [Page |-> 1, PageSize |-> arg.PageSize])
        IN  arg.Page = first.TotalPages + 1 =>
                /\ last.ret.Items = <<>>
                /\ last.ret.TotalItems = first.TotalItems
                /\ last.ret.TotalPages = first.TotalPages

\* ------------------------------------------------------------------ last study session
MaxLastSessions == 3
MaxLastTime == 3

\* Preload("Group") / Preload("Activity"): the name of the referenced row, the
\* zero value when the row is gone
NameOf(rows, id) ==
    IF Exists(rows, id) THEN (CHOOSE r \in rows : r.id = id).name ELSE ""

\* a mutant of the repository read: the oldest session is taken
StudyRepositoryGetLastStudySession_Oldest(d) ==
    IF d.study_sessions = {} THEN [session |-> <<>>, err |-> "ErrNotFound"]
    ELSE LET s == CHOOSE r \in d.study_sessions : \A q \in d.study_sessions :
                      \/ r.created_at < q.created_at
                      \/ (q.created_at = r.created_at /\ r.id <= q.id)
         IN  [session |-> <<[ID |-> s.id, GroupID |-> s.group_id,
                             StudyActivityID |-> s.study_activity_id,
                             CreatedAt |-> s.created_at,
                             Group |-> [Name |-> NameOf(d.groups, s.group_id)],
                             Activity |-> [Name |-> NameOf(d.study_activities,
                                                           s.study_activity_id)]]>>,
              err |-> "nil"]

\* StudyRepository.GetLastStudySession: Order("created_at DESC").First(&session)
\* is ORDER BY created_at DESC, id LIMIT 1; no row is ErrNotFound
StudyRepositoryGetLastStudySession(d) ==
    IF d.study_sessions = {} THEN [session |-> <<>>, err |-> "ErrNotFound"]
    ELSE LET s == CHOOSE r \in d.study_sessions : \A q \in d.study_sessions :
                      \/ q.created_at < r.created_at
                      \/ (q.created_at = r.created_at /\ r.id <= q.id)
         IN  [session |-> <<[ID |-> s.id, GroupID |-> s.group_id,
                             StudyActivityID |-> s.study_activity_id,
                             CreatedAt |-> s.created_at,
                             Group |-> [Name |-> NameOf(d.groups, s.group_id)],
                             Activity |-> [Name |-> NameOf(d.study_activities,
                                                           s.study_activity_id)]]>>,
              err |-> "nil"]

\* &LastStudySession{}
ZeroLastStudySession ==
    [ID |-> 0, GroupID |-> 0, CreatedAt |-> 0, StudyActivityID |-> 0,
     GroupName |-> "", ActivityName |-> ""]

\* DashboardService.GetLastStudySession: ret holds the struct the pointer refers to
DashboardServiceGetLastStudySession(d) ==
    LET r == StudyRepositoryGetLastStudySession(d)
    IN  IF r.err = "ErrNotFound" THEN [ret |-> <<ZeroLastStudySession>>, err |-> "nil"]
        ELSE IF r.err # "nil" THEN [ret |-> <<>>, err |-> "INTERNAL_ERROR"]
        ELSE LET session == r.session[1]
             IN  [ret |-> <<[ID |-> session.ID, GroupID |-> session.GroupID,
                             CreatedAt |-> session.CreatedAt,
                             StudyActivityID |-> session.StudyActivityID,
                             GroupName |-> session.Group.Name,
                             ActivityName |-> session.Activity.Name]>>,
                  err |-> "nil"]

\* StudyService.GetLastStudySession: a nil pointer and a nil error without a session
StudyServiceGetLastStudySession(d) ==
    LET r == StudyRepositoryGetLastStudySession(d)
    IN  IF r.err = "ErrNotFound" THEN [ret |-> <<>>, err |-> "nil"]
        ELSE IF r.err # "nil" THEN [ret |-> <<>>, err |-> "INTERNAL_ERROR"]
        ELSE LET session == r.session[1]
             IN  [ret |-> <<[ID |-> session.ID, GroupID |-> session.GroupID,
                             CreatedAt |-> session.CreatedAt,
                             StudyActivityID |-> session.StudyActivityID,
                             GroupName |-> session.Group.Name,
                             ActivityName |-> session.Activity.Name]>>,
                  err |-> "nil"]

\* a store with k sessions created at times f (ids grow with the creation
\* time) in groups g; group 2 may have been deleted since
LastDb(k, f, g, groups) ==
    [EmptyDb EXCEPT
        !.groups = {[id |-> i, name |-> "g" \o ToString(i)] : i \in groups},
        !.study_activities = {[id |-> 1, name |-> "a1"]},
        !.study_sessions = {[id |-> i, group_id |-> g[i], study_activity_id |-> 1,
                             created_at |-> f[i]] : i \in 1..k},
        !.seq = [NoSeq EXCEPT !.groups = 2, !.study_activities = 1, !.study_sessions = k]]

InitLast ==
    /\ \E k \in 0..MaxLastSessions :
       \E f \in [1..k -> 1..MaxLastTime], g \in [1..k -> 1..2], groups \in {{1}, {1, 2}} :
          /\ \A i \in 1..k : \A j \in 1..k : i <= j => f[i] <= f[j]
          /\ db = LastDb(k, f, g, groups)
    /\ now = MaxLastTime
    /\ arg = <<>>
    /\ last = Idle

CallDashboardServiceGetLastStudySession ==
    /\ last.op = "none"
    /\ last' = [op |-> "DashboardService.GetLastStudySession",
                out |-> DashboardServiceGetLastStudySession(db)]
    /\ UNCHANGED <<db, now, arg>>

CallStudyServiceGetLastStudySession ==
    /\ last.op = "none"
    /\ last' = [op |-> "StudyService.GetLastStudySession",
                out |-> StudyServiceGetLastStudySession(db)]
    /\ UNCHANGED <<db, now, arg>>

NextLast ==
    \/ CallDashboardServiceGetLastStudySession
    \/ CallStudyServiceGetLastStudySession

SpecLast == InitLast /\ [][NextLast]_vars

LastOps == {"DashboardService.GetLastStudySession", "StudyService.GetLastStudySession"}

\* C17: whenever GetLastStudySession has returned, it returned no error; with
\* no session in the store the result is empty (a zero struct from the
\* dashboard service, nil from the study service); otherwise it is a session of
\* the greatest creation time, with the names of that session's group and
\* activity rows.
C17_LastStudySession ==
    last.op \in LastOps =>
        /\ last.out.err = "nil"
        /\ IF db.study_sessions = {}
           THEN last.out.ret \in {<<>>, <<ZeroLastStudySession>>}
           ELSE /\ Len(last.out.ret) = 1
                /\ \E s \in db.study_sessions :
                      /\ \A q \in db.study_sessions : q.created_at <= s.created_at
                      /\ last.out.ret[1].ID = s.id
                      /\ last.out.ret[1].CreatedAt = s.created_at
                      /\ \A gr \in db.groups :
                            gr.id = s.group_id => last.out.ret[1].GroupName = gr.name
                      /\ \A a \in db.study_activities :
                            a.id = s.study_activity_id =>
                                last.out.ret[1].ActivityName = a.name

\* the newest of several sessions of different times has been returned with
\* its group's name
C17_Witness ==
    /\ last.op \in LastOps
    /\ Cardinality(db.study_sessions) >= 2
    /\ \E s \in db.study_sessions, q \in db.study_sessions : q.created_at < s.created_at
    /\ Len(last.out.ret) = 1
    /\ last.out.ret[1].GroupName = "g2"

\* GetLastStudySession has returned on a store without sessions
C17_WitnessEmpty ==
    /\ last.op \in LastOps
    /\ db.study_sessions = {}
    /\ last.out.err = "nil"

\* ------------------------------------------------------------------ creates and updates through the services
MaxEntityId == 2

NameChoices == {"", "g1", "g2"}
ActivityNameChoices == {"a1", "a2"}
UrlChoices == {"https://x/y.jpg", "not a url"}
JapaneseChoices == {"", "w", "v"}

\* GroupRepository.GetByName / the unique index on name: another row has the name
NameTakenByOther(rows, id, name) == \E r \in rows : r.id # id /\ r.name = name

\* GroupRepository.Create
GroupRepositoryCreate(d, g) ==
    IF ~GroupValidate(g) THEN [db |-> d, err |-> "ErrInvalidInput"]
    ELSE IF NameTaken(d.groups, g.Name) THEN [db |-> d, err |-> "sql"]
    ELSE Insert(d, "groups", [id |-> InsertId(d, "groups", g.ID), name |-> g.Name])

\* GroupService.CreateGroup
GroupServiceCreateGroup(d, g) ==
    IF NameTaken(d.groups, g.Name) THEN [db |-> d, code |-> "INVALID_INPUT"]
    ELSE LET r == GroupRepositoryCreate(d, g)
         IN  [db |-> r.db, code |-> IF r.err = "nil" THEN "nil" ELSE "INTERNAL_ERROR"]

\* GroupRepository.Update: Validate, then Save (an UPDATE of the row)
GroupRepositoryUpdate(d, g) ==
    IF ~GroupValidate(g) THEN [db |-> d, err |-> "ErrInvalidInput"]
    ELSE IF NameTakenByOther(d.groups, g.ID, g.Name) THEN [db |-> d, err |-> "sql"]
    ELSE [db |-> [d EXCEPT !.groups =
                     {IF r.id = g.ID THEN [r EXCEPT !.name = g.Name] ELSE r : r \in @}],
          err |-> "nil"]

\* GroupService.UpdateGroup
GroupServiceUpdateGroup(d, id, g) ==
    IF ~Exists(d.groups, id) THEN [db |-> d, code |-> "NOT_FOUND"]
    ELSE LET existing == CHOOSE r \in d.groups : r.id = id
         IN  IF existing.name # g.Name /\ NameTaken(d.groups, g.Name)
             THEN [db |-> d, code |-> "INVALID_INPUT"]
             ELSE LET r == GroupRepositoryUpdate(d, [ID |-> id, Name |-> g.Name])
                  IN  [db |-> r.db,
                       code |-> IF r.err = "nil" THEN "nil" ELSE "INTERNAL_ERROR"]

\* a mutant of the repository: study_activities.name without its unique index
StudyRepositoryCreateStudyActivity_NoUniqueIndex(d, a) ==
    IF ~StudyActivityValidate(a) THEN [db |-> d, err |-> "ErrInvalidInput"]
    ELSE Insert(d, "study_activities",
                [id |-> InsertId(d, "study_activities", a.ID), name |-> a.Name])

\* StudyRepository.CreateStudyActivity
StudyRepositoryCreateStudyActivity(d, a) ==
    IF ~StudyActivityValidate(a) THEN [db |-> d, err |-> "ErrInvalidInput"]
    ELSE IF NameTaken(d.study_activities, a.Name) THEN [db |-> d, err |-> "sql"]
    ELSE Insert(d, "study_activities",
                [id |-> InsertId(d, "study_activities", a.ID), name |-> a.Name])

\* StudyService.CreateStudyActivity
StudyServiceCreateStudyActivity(d, a) ==
    LET r == StudyRepositoryCreateStudyActivity(d, a)
    IN  [db |-> r.db, code |-> IF r.err = "nil" THEN "nil" ELSE "INTERNAL_ERROR"]

\* WordRepository.Create
WordRepositoryCreate(d, w) ==
    IF ~WordValidate(w) THEN [db |-> d, err |-> "ErrInvalidInput"]
    ELSE Insert(d, "words", [id |-> InsertId(d, "words", w.ID), japanese |-> w.Japanese])

\* WordService.CreateWord
WordServiceCreateWord(d, w) ==
    LET r == WordRepositoryCreate(d, w)
    IN  [db |-> r.db, code |-> IF r.err = "nil" THEN "nil" ELSE "INTERNAL_ERROR"]

\* WordRepository.Update: Validate, then Save (an UPDATE of the row)
WordRepositoryUpdate(d, w) ==
    IF ~WordValidate(w) THEN [db |-> d, err |-> "ErrInvalidInput"]
    ELSE [db |-> [d EXCEPT !.words =
                     {IF r.id = w.ID THEN [r EXCEPT !.japanese = w.Japanese] ELSE r : r \in @}],
          err |-> "nil"]

\* WordService.UpdateWord: the stored word takes the request's text fields
WordServiceUpdateWord(d, id, w) ==
    IF ~Exists(d.words, id) THEN [db |-> d, code |-> "NOT_FOUND"]
    ELSE LET r == WordRepositoryUpdate(d, [w EXCEPT !.ID = id])
         IN  [db |-> r.db, code |-> IF r.err = "nil" THEN "nil" ELSE "INTERNAL_ERROR"]

\* request bodies: a group, an activity and a word with every field but the
\* varied ones filled in
GroupBody(id, name) == [ID |-> id, Name |-> name]

ActivityBody(id, name, url) ==
    [ID |-> id, Name |-> name, Description |-> "d", ThumbnailURL |-> url]

WordBody(id, japanese) ==
    [ID |-> id, Japanese |-> japanese, Romaji |-> "r", English |-> "e", Parts |-> 1]

Called(op, code, id, req) == [op |-> op, code |-> code, id |-> id, req |-> req]

ServiceCreateGroup ==
    \E id \in 0..MaxEntityId, n \in NameChoices :
        LET r == GroupServiceCreateGroup(db, GroupBody(id, n))
        IN  /\ db' = r.db
            /\ last' = Called("GroupService.CreateGroup", r.code, id, GroupBody(id, n))
            /\ UNCHANGED <<now, arg>>

ServiceUpdateGroup ==
    \E id \in 1..MaxEntityId, n \in NameChoices :
        LET r == GroupServiceUpdateGroup(db, id, GroupBody(0, n))
        IN  /\ db' = r.db
            /\ last' = Called("GroupService.UpdateGroup", r.code, id, GroupBody(0, n))
            /\ UNCHANGED <<now, arg>>

ServiceCreateStudyActivity ==
    \E id \in 0..MaxEntityId, n \in ActivityNameChoices, u \in UrlChoices :
        LET r == StudyServiceCreateStudyActivity(db, ActivityBody(id, n, u))
        IN  /\ db' = r.db
            /\ last' = Called("StudyService.CreateStudyActivity", r.code, id,
                              ActivityBody(id, n, u))
            /\ UNCHANGED <<now, arg>>

ServiceCreateWord ==
    \E id \in 0..MaxEntityId, j \in JapaneseChoices :
        LET r == WordServiceCreateWord(db, WordBody(id, j))
        IN  /\ db' = r.db
            /\ last' = Called("WordService.CreateWord", r.code, id, WordBody(id, j))
            /\ UNCHANGED <<now, arg>>

ServiceUpdateWord ==
    \E id \in 1..MaxEntityId, j \in JapaneseChoices :
        LET r == WordServiceUpdateWord(db, id, WordBody(0, j))
        IN  /\ db' = r.db
            /\ last' = Called("WordService.UpdateWord", r.code, id, WordBody(0, j))
            /\ UNCHANGED <<now, arg>>

NextEntities ==
    \/ ServiceCreateGroup
    \/ ServiceUpdateGroup
    \/ ServiceCreateStudyActivity
    \/ ServiceCreateWord
    \/ ServiceUpdateWord

SpecEntities == Init /\ [][NextEntities]_vars

\* ------------------------------------------------------------------ unique names
NamesUnique(rows) == \A r \in rows, q \in rows : r.name = q.name => r.id = q.id

\* C18: in every state reached by CreateGroup, UpdateGroup and
\* CreateStudyActivity calls no two groups and no two study activities share a
\* name; and a create or a rename to the name of another existing row returns
\* an error and hands back the store unchanged.
C18_NamesUnique ==
    /\ NamesUnique(db.groups)
    /\ NamesUnique(db.study_activities)
    /\ \A id \in 0..MaxEntityId, n \in NameChoices :
          /\ NameTaken(db.groups, n) =>
                LET r == GroupServiceCreateGroup(db, GroupBody(id, n))
                IN  r.code # "nil" /\ r.db = db
          /\ (id # 0 /\ NameTakenByOther(db.groups, id, n)) =>
                LET r == GroupServiceUpdateGroup(db, id, GroupBody(0, n))
                IN  r.code # "nil" /\ r.db = db
    /\ \A id \in 0..MaxEntityId, n \in ActivityNameChoices, u \in UrlChoices :
          NameTaken(db.study_activities, n) =>
              LET r == StudyServiceCreateStudyActivity(db, ActivityBody(id, n, u))
              IN  r.code # "nil" /\ r.db = db

\* with two groups and two activities in the store, a rename of one group to
\* the other group's name has been rejected
C18_Witness ==
    /\ last.op = "GroupService.UpdateGroup"
    /\ last.code = "INVALID_INPUT"
    /\ NameTakenByOther(db.groups, last.id, last.req.Name)
    /\ Cardinality(db.groups) = 2
    /\ Cardinality(db.study_activities) = 2

\* ------------------------------------------------------------------ validation failures
\* the request of the step is a validation failure: an empty japanese field on
\* CreateWord or on UpdateWord of an existing word, a malformed thumbnail URL
\* on CreateStudyActivity, or a create or rename to a name another row holds
InvalidRequest ==
    \/ /\ last'.op = "WordService.CreateWord"
       /\ last'.req.Japanese = ""
    \/ /\ last'.op = "WordService.UpdateWord"
       /\ last'.req.Japanese = ""
       /\ Exists(db.words, last'.id)
    \/ /\ last'.op = "StudyService.CreateStudyActivity"
       /\ \/ last'.req.ThumbnailURL = "not a url"
          \/ NameTaken(db.study_activities, last'.req.Name)
    \/ /\ last'.op = "GroupService.CreateGroup"
       /\ NameTaken(db.groups, last'.req.Name)
    \/ /\ last'.op = "GroupService.UpdateGroup"
       /\ Exists(db.groups, last'.id)
       /\ NameTakenByOther(db.groups, last'.id, last'.req.Name)

\* C19: every service call whose request is a validation failure returns
\* INVALID_INPUT and leaves the store as it was.
C19_ValidationIsInvalidInput ==
    [][InvalidRequest => (last'.code = "INVALID_INPUT" /\ db' = db)]_vars

\* the part of C19 that holds: a validation failure returns an error of some
\* kind and leaves the store as it was
ValidationWritesNothing ==
    [][InvalidRequest => (last'.code # "nil" /\ db' = db)]_vars

\* the group half of C19: a colliding create or rename returns INVALID_INPUT
DuplicateGroupNameIsInvalidInput ==
    [][(InvalidRequest /\ last'.op \in {"GroupService.CreateGroup", "GroupService.UpdateGroup"})
          => (last'.code = "INVALID_INPUT" /\ db' = db)]_vars

\* ------------------------------------------------------------------ transactions, statement by statement
\* A transaction runs on a connection of its own: its statements change the
\* transaction's copy of the store (arg.tx), which other connections do not
\* see; the commit publishes the copy, a rollback drops it. SQLite admits one
\* writing transaction at a time.
NoTx == [op |-> "none"]

TableColumns ==
    [words             |-> {"id", "japanese"},
     groups            |-> {"id", "name"},
     study_activities  |-> {"id", "name"},
     word_groups       |-> {"group_id", "word_id"},
     study_sessions    |-> {"id", "group_id", "study_activity_id", "created_at"},
     word_review_items |-> {"id", "word_id", "study_session_id", "correct"}]

\* DELETE FROM table WHERE col = ?; col "" is a DELETE of every row
Stmt(table, col) == [table |-> table, col |-> col]

TxOps ==
    {"SettingsHandler.ResetHistory", "StudyRepository.ResetStudyHistory",
     "SettingsHandler.FullReset", "WordRepository.Delete",
     "WordRepository.DeleteExec", "GroupRepository.Delete"}

\* the statements of each transaction, in the order the code runs them
TxStatements(op) ==
    CASE op = "SettingsHandler.ResetHistory" ->
             <<Stmt("word_review_items", ""), Stmt("study_sessions", "")>>
      [] op = "StudyRepository.ResetStudyHistory" ->
             <<Stmt("word_review_items", ""), Stmt("study_sessions", "")>>
      [] op = "SettingsHandler.FullReset" ->
             [i \in 1..Len(FullResetTables) |-> Stmt(FullResetTables[i], "")]
      [] op = "WordRepository.Delete" ->
             <<Stmt("words", "word_id"), Stmt("word_review_items", "word_id"),
               Stmt("words", "id")>>
      [] op = "WordRepository.DeleteExec" ->
             <<Stmt("word_groups", "word_id"), Stmt("word_review_items", "word_id"),
               Stmt("words", "id")>>
      [] op = "GroupRepository.Delete" ->
             <<Stmt("word_groups", "group_id"), Stmt("groups", "id")>>

\* one statement run as number n of a transaction; a column the table does not
\* have is an error of the database
Exec(r, stmt, id, n, fault) ==
    IF stmt.col = "" THEN DeleteAll(r, stmt.table, n, fault)
    ELSE IF stmt.col \notin TableColumns[stmt.table]
         THEN IF r.err # "nil" THEN r ELSE [db |-> r.db, err |-> "sql"]
    ELSE DeleteWhere(r, stmt.table, stmt.col, id, n, fault)

\* the store each operation leaves when it runs alone, as one step
WholeDb(op, d, id, fault) ==
    CASE op = "SettingsHandler.ResetHistory" -> SettingsHandlerResetHistory(d, fault).db
      [] op = "StudyRepository.ResetStudyHistory" -> StudyRepositoryResetStudyHistory(d, fault).db
      [] op = "SettingsHandler.FullReset" -> SettingsHandlerFullReset(d, fault).db
      [] op = "WordRepository.Delete" -> WordRepositoryDelete(d, id, fault).db
      [] op = "WordRepository.DeleteExec" -> WordRepositoryDeleteExec(d, id, fault).db
      [] op = "GroupRepository.Delete" -> GroupRepositoryDelete(d, id, fault).db

\* a store with a word in a group, a session, and a review of the word or none
TxDb(reviewed) ==
    [SeededDb EXCEPT
        !.study_sessions = {[id |-> 1, group_id |-> 1, study_activity_id |-> 1,
                             created_at |-> 0]},
        !.word_review_items =
            IF reviewed
            THEN {[id |-> 1, word_id |-> 1, study_session_id |-> 1, correct |-> TRUE]}
            ELSE {},
        !.seq = [@ EXCEPT !.study_sessions = 1,
                          !.word_review_items = IF reviewed THEN 1 ELSE 0]]

InitTx ==
    /\ \E reviewed \in BOOLEAN : db = TxDb(reviewed)
    /\ now = 0
    /\ arg = NoTx
    /\ last = Idle

\* db.Begin()
TxBegin ==
    /\ arg = NoTx
    /\ \E op \in TxOps, id \in 1..MaxWords :
       \E fault \in 0..(Len(TxStatements(op)) + 1) :
          arg' = [op |-> op, id |-> id, fault |-> fault, pc |-> 1,
                  tx |-> Begin(db), base |-> db]
    /\ UNCHANGED <<db, now, last>>

Ended(err) ==
    [op |-> "End", of |-> arg.op, id |-> arg.id, base |-> arg.base, err |-> err]

\* a mutant of the step: the statement runs on the database handle, not on tx
TxStep_OnDb ==
    /\ arg # NoTx
    /\ arg.pc <= Len(TxStatements(arg.op))
    /\ LET r == Exec(arg.tx, TxStatements(arg.op)[arg.pc], arg.id, arg.pc, arg.fault)
       IN  IF r.err # "nil"
           THEN /\ arg' = NoTx
                /\ last' = Ended(r.err)
                /\ UNCHANGED db
           ELSE /\ arg' = [arg EXCEPT !.pc = @ + 1, !.tx = r]
                /\ db' = r.db
                /\ UNCHANGED last
    /\ UNCHANGED now

\* the next statement of the open transaction: tx.Exec / tx.Delete; on an
\* error the code rolls back and returns
TxStep ==
    /\ arg # NoTx
    /\ arg.pc <= Len(TxStatements(arg.op))
    /\ LET r == Exec(arg.tx, TxStatements(arg.op)[arg.pc], arg.id, arg.pc, arg.fault)
       IN  IF r.err # "nil"
           THEN /\ arg' = NoTx
                /\ last' = Ended(r.err)
           ELSE /\ arg' = [arg EXCEPT !.pc = @ + 1, !.tx = r]
                /\ UNCHANGED last
    /\ UNCHANGED <<db, now>>

\* tx.Commit()
TxCommit ==
    /\ arg # NoTx
    /\ arg.pc = Len(TxStatements(arg.op)) + 1
    /\ LET r == WithTransaction(arg.base, arg.tx, arg.fault = arg.pc)
       IN  /\ db' = r.db
           /\ last' = Ended(r.err)
    /\ arg' = NoTx
    /\ UNCHANGED now

\* WordHandler.DeleteWord: one DELETE outside any transaction
TxHandlerDeleteWord ==
    /\ arg = NoTx
    /\ HandlerDeleteWord

\* a query of another request, on a connection of its own
Read ==
    /\ last' = [op |-> "Read", seen |-> db,
                during |-> IF arg = NoTx THEN NoTx
                           ELSE [op |-> arg.op, id |-> arg.id, pc |-> arg.pc,
                                 base |-> arg.base]]
    /\ UNCHANGED <<db, now, arg>>

NextTx ==
    \/ TxBegin
    \/ TxStep
    \/ TxCommit
    \/ TxHandlerDeleteWord
    \/ Read

SpecTx == InitTx /\ [][NextTx]_vars

GroupPreloadWords(d, id) ==
    LET members == {w \in d.words : [group_id |-> id, word_id |-> w.id] \in d.word_groups}
        ids == OrderRowid(members)
        reviewsOf(w) == {r \in d.word_review_items : r.word_id = w}
    IN  [ID       |-> id,
         Words    |-> [i \in 1..Len(ids) |->
                          [ID |-> ids[i],
                           Reviews |-> LET rs == OrderRowid(reviewsOf(ids[i]))
                                       IN  [j \in 1..Len(rs) |->
                                              [Correct |-> \E r \in d.word_review_items :
                                                              r.id = rs[j] /\ r.correct]]]],
         Sessions |-> <<>>]

\* GroupRepository.GetStudyStats
GroupRepositoryGetStudyStats(d, id) ==
    IF ~Exists(d.groups, id)
    THEN [stats |-> [totalSessions |-> 0, totalReviews |-> 0, correctReviews |-> 0],
          err |-> "ErrNotFound"]
    ELSE [stats |-> GroupGetStudyStats(GroupPreloadWords(d, id)), err |-> "nil"]

\* GroupService.GetGroupStudyStats
GroupServiceGetGroupStudyStats(d, id) ==
    LET r == GroupRepositoryGetStudyStats(d, id)
    IN  [stats |-> r.stats,
         code |-> IF r.err = "nil" THEN "nil"
                  ELSE IF r.err = "ErrNotFound" THEN "NOT_FOUND" ELSE "INTERNAL_ERROR"]

SessionsOfGroup(d, g) == {s \in d.study_sessions : s.group_id = g}

ReviewsOfGroup(d, g) ==
    {r \in d.word_review_items : r.study_session_id \in Ids(SessionsOfGroup(d, g))}

\* C21 (as claimed): for every group in the store, GroupRepository.GetStudyStats
\* and GroupService.GetGroupStudyStats succeed and return the number of session
\* rows of the group, the number of review rows of those sessions and the
\* number of those reviews that are marked correct.
C21_GroupStudyStats ==
    \A g \in Ids(db.groups) :
        LET want == [totalSessions  |-> Cardinality(SessionsOfGroup(db, g)),
                     totalReviews   |-> Cardinality(ReviewsOfGroup(db, g)),
                     correctReviews |-> Cardinality({r \in ReviewsOfGroup(db, g) : r.correct})]
            a == GroupRepositoryGetStudyStats(db, g)
            b == GroupServiceGetGroupStudyStats(db, g)
        IN  /\ a.err = "nil" /\ a.stats = want
            /\ b.code = "nil" /\ b.stats = want

\* ------------------------------------------------------------------ queries
\* Every aggregation and listing runs a fixed list of SQL statements on the
\* database handle; what a call does to the store is what its statements do.

\* a mutant of the query statement: it deletes what it was to read
Select_Delete(table) == [verb |-> "DELETE", table |-> table]

\* Find / First / Count / Preload on a table: one SELECT
Select(table) == [verb |-> "SELECT", table |-> table]

\* one statement run on the store
Execute(d, stmt) ==
    IF stmt.verb = "SELECT" THEN d ELSE [d EXCEPT ![stmt.table] = {}]

RECURSIVE ExecuteAll(_, _, _)
ExecuteAll(d, stmts, i) ==
    IF i > Len(stmts) THEN d ELSE ExecuteAll(Execute(d, stmts[i]), stmts, i + 1)

QueryOps ==
    {"StudyRepository.GetLastStudySession", "StudyRepository.GetStudyStats",
     "StudyRepository.GetStudyStreak", "StudyRepository.GetActiveGroups",
     "StudyRepository.ListStudySessions", "StudyRepository.GetStudySessionByID",
     "WordRepository.GetByID", "WordRepository.List", "WordRepository.GetStudyStats",
     "WordRepository.GetTotalWordCount", "WordRepository.GetStudiedWordCount",
     "GroupRepository.GetByID", "GroupRepository.List", "GroupRepository.GetStudyStats",
     "GroupRepository.GetActiveGroupCount",
     "DashboardService.GetLastStudySession", "DashboardService.GetStudyProgress",
     "DashboardService.GetQuickStats"}

\* the statements of each query, in the order the code and its preloads run them
RECURSIVE QueryStatements(_)
QueryStatements(op) ==
    CASE op = "StudyRepository.GetLastStudySession" ->
             <<Select("study_sessions"), Select("study_activities"), Select("groups")>>
      [] op = "StudyRepository.GetStudyStats" ->
             <<Select("study_sessions"), Select("word_review_items"),
               Select("word_review_items")>>
      [] op = "StudyRepository.GetStudyStreak" -> <<Select("study_sessions")>>
      [] op = "StudyRepository.GetActiveGroups" -> <<Select("study_sessions")>>
      [] op = "StudyRepository.ListStudySessions" ->
             <<Select("study_sessions"), Select("study_sessions"),
               Select("study_activities"), Select("groups"), Select("word_review_items"),
               Select("study_sessions")>>
      [] op = "StudyRepository.GetStudySessionByID" ->
             <<Select("study_sessions"), Select("study_activities"), Select("groups"),
               Select("word_review_items"), Select("words")>>
      [] op = "WordRepository.GetByID" ->
             <<Select("words"), Select("word_groups"), Select("groups"),
               Select("word_review_items")>>
      [] op = "WordRepository.List" ->
             <<Select("words"), Select("words"), Select("word_groups"), Select("groups"),
               Select("word_review_items"), Select("words")>>
      [] op = "WordRepository.GetStudyStats" ->
             <<Select("words"), Select("word_review_items")>>
      [] op = "WordRepository.GetTotalWordCount" -> <<Select("words")>>
      [] op = "WordRepository.GetStudiedWordCount" -> <<Select("words")>>
      [] op = "GroupRepository.GetByID" ->
             <<Select("groups"), Select("word_groups"), Select("words"),
               Select("word_review_items")>>
      [] op = "GroupRepository.List" ->
             <<Select("groups"), Select("groups"), Select("word_groups"), Select("words"),
               Select("word_review_items"), Select("groups")>>
      [] op = "GroupRepository.GetStudyStats" ->
             <<Select("groups"), Select("word_groups"), Select("words"),
               Select("word_review_items")>>
      [] op = "GroupRepository.GetActiveGroupCount" -> <<Select("groups")>>
      [] op = "DashboardService.GetLastStudySession" ->
             QueryStatements("StudyRepository.GetLastStudySession")
      [] op = "DashboardService.GetStudyProgress" ->
             QueryStatements("WordRepository.GetTotalWordCount")
                 \o QueryStatements("WordRepository.GetStudiedWordCount")
      [] op = "DashboardService.GetQuickStats" ->
             QueryStatements("StudyRepository.GetStudyStats")
                 \o QueryStatements("StudyRepository.GetActiveGroups")
                 \o QueryStatements("StudyRepository.GetStudyStreak")

\* a query of the dashboard, of a listing or of a lookup
Query ==
    \E op \in QueryOps :
        /\ db' = ExecuteAll(db, QueryStatements(op), 1)
        /\ last' = Done(op, "nil", 0)
        /\ UNCHANGED <<now, arg>>

\* the queries, between requests that create and remove what they read
NextQueries ==
    \/ HandlerCreateWord
    \/ HandlerCreateGroup
    \/ HandlerCreateStudySession
    \/ HandlerAddWordReview
    \/ ServiceDeleteWordExec
    \/ HandlerDeleteGroup
    \/ HandlerResetHistory
    \/ HandlerFullReset
    \/ Query

SpecQueries == Init /\ [][NextQueries]_vars

\* the requests of NextQueries that create, change or remove rows
MutationOps ==
    {"Handler.CreateWord", "Handler.CreateGroup", "Handler.CreateStudySession",
     "Handler.AddWordReview", "Service.DeleteWordExec", "Handler.DeleteGroup",
     "Handler.ResetHistory", "Handler.FullReset"}

WordDeleteDone(w) ==
    /\ last.op \in {"Service.DeleteWord", "Service.DeleteWordExec"}
    /\ last.code = "nil"
    /\ last.id = w

C24_DeleteMissingIsNotFound ==
    /\ \A w \in (1..MaxWords) \ Ids(db.words) :
          LET a == WordServiceDeleteWord(db, w, 0)
              b == WordServiceDeleteWordExec(db, w, 0)
          IN  /\ a.code = "NOT_FOUND" /\ a.db = db
              /\ b.code = "NOT_FOUND" /\ b.db = db
    /\ \A g \in (1..MaxGroups) \ Ids(db.groups) :
          LET r == GroupServiceDeleteGroup(db, g, 0)
          IN  r.code = "NOT_FOUND" /\ r.db = db

\* ------------------------------------------------------------------ a review request, statement by statement
\* AddWordReview runs its two lookups and its insert as three statements on
\* the database handle, outside any transaction; between two of them another
\* request can commit. arg is the request in flight.
InitReview ==
    /\ db = SeededDb
    /\ now = 0
    /\ arg = NoTx
    /\ last = Idle

\* the request arrives: StudyHandler.AddWordReview or StudyService.AddWordReview
ReviewBegin ==
    /\ arg = NoTx
    /\ InsertId(db, "word_review_items", 0) <= MaxReviews
    /\ \E path \in {"Handler", "Service"}, sid \in 1..MaxSessions, wid \in 1..MaxWords,
          c \in BOOLEAN :
          arg' = [op |-> path \o ".AddWordReview", sessionID |-> sid, wordID |-> wid,
                  correct |-> c, pc |-> "session"]
    /\ UNCHANGED <<db, now, last>>

\* the request ends and answers
ReviewEnd(code) ==
    /\ arg' = NoTx
    /\ last' = [op |-> arg.op, code |-> code, id |-> 0,
                sessionID |-> arg.sessionID, wordID |-> arg.wordID]

\* "Verify session exists": First(&session, sessionID) / GetStudySessionByID;
\* the handler refuses a grading of false when it binds the body, before this
ReviewFindSession ==
    /\ arg # NoTx /\ arg.pc = "session"
    /\ IF arg.op = "Handler.AddWordReview" /\ ~arg.correct
       THEN ReviewEnd("400")
       ELSE IF ~Exists(db.study_sessions, arg.sessionID)
       THEN ReviewEnd(IF arg.op = "Handler.AddWordReview" THEN "404" ELSE "NOT_FOUND")
       ELSE arg' = [arg EXCEPT !.pc = "word"] /\ UNCHANGED last
    /\ UNCHANGED <<db, now>>

\* "Verify word exists": First(&word, wordID) / wordRepo.GetByID
ReviewFindWord ==
    /\ arg # NoTx /\ arg.pc = "word"
    /\ IF ~Exists(db.words, arg.wordID)
       THEN ReviewEnd(IF arg.op = "Handler.AddWordReview" THEN "404" ELSE "NOT_FOUND")
       ELSE arg' = [arg EXCEPT !.pc = "create"] /\ UNCHANGED last
    /\ UNCHANGED <<db, now>>

\* h.db.Create(&review) / studyRepo.AddWordReview(review)
ReviewCreate ==
    /\ arg # NoTx /\ arg.pc = "create"
    /\ LET r == IF arg.op = "Handler.AddWordReview"
                THEN Insert(db, "word_review_items",
                            [id |-> InsertId(db, "word_review_items", 0),
                             word_id |-> arg.wordID, study_session_id |-> arg.sessionID,
                             correct |-> arg.correct])
                ELSE StudyRepositoryAddWordReview(db,
                         [ZeroReview EXCEPT !.WordID = arg.wordID,
                                            !.StudySessionID = arg.sessionID,
                                            !.Correct = arg.correct])
       IN  /\ db' = r.db
           /\ ReviewEnd(IF r.err = "nil"
                        THEN (IF arg.op = "Handler.AddWordReview" THEN "200" ELSE "nil")
                        ELSE (IF arg.op = "Handler.AddWordReview" THEN "500"
                              ELSE "INTERNAL_ERROR"))
    /\ UNCHANGED now

NextReview ==
    \/ ReviewBegin
    \/ ReviewFindSession
    \/ ReviewFindWord
    \/ ReviewCreate
    \/ HandlerCreateWord
    \/ HandlerCreateStudySession
    \/ ServiceDeleteWordExec
    \/ ServiceResetStudyHistory
    \/ HandlerResetHistory
    \/ HandlerFullReset

SpecReview == InitReview /\ [][NextReview]_vars

\* C25 (as claimed): in every state reached by AddWordReview requests running
\* beside history resets, full resets and word deletes, every stored review
\* names a session and a word that are both in the store.
C25_ReviewsReferToRows ==
    \A r \in db.word_review_items :
        /\ Exists(db.study_sessions, r.study_session_id)
        /\ Exists(db.words, r.word_id)

\* ------------------------------------------------------------------ group requests, statement by statement
\* GroupService.CreateGroup and GroupService.UpdateGroup look the name up and
\* then write, as separate statements on the database handle; arg holds the
\* two requests in flight.
GroupClients == 1..2

IdleRequest == [pc |-> "idle"]

InitGroups ==
    /\ db = SeededDb
    /\ now = 0
    /\ arg = [i \in GroupClients |-> IdleRequest]
    /\ last = Idle

GroupBegin(i) ==
    /\ arg[i].pc = "idle"
    /\ \E op \in {"GroupService.CreateGroup", "GroupService.UpdateGroup"},
          id \in 1..MaxEntityId, n \in {"g1", "g2"} :
          arg' = [arg EXCEPT ![i] = [pc |-> "check", op |-> op, id |-> id, name |-> n]]
    /\ UNCHANGED <<db, now, last>>

GroupEnd(i, code) ==
    /\ arg' = [arg EXCEPT ![i] = IdleRequest]
    /\ last' = [op |-> arg[i].op, code |-> code, id |-> arg[i].id, name |-> arg[i].name]

\* the lookups: GetByName for a create; GetByID, and GetByName when the name
\* changes, for an update
GroupCheck(i) ==
    /\ arg[i].pc = "check"
    /\ IF arg[i].op = "GroupService.CreateGroup"
       THEN IF NameTaken(db.groups, arg[i].name)
            THEN GroupEnd(i, "INVALID_INPUT")
            ELSE arg' = [arg EXCEPT ![i].pc = "write"] /\ UNCHANGED last
       ELSE IF ~Exists(db.groups, arg[i].id)
            THEN GroupEnd(i, "NOT_FOUND")
            ELSE LET existing == CHOOSE r \in db.groups : r.id = arg[i].id
                 IN  IF existing.name # arg[i].name /\ NameTaken(db.groups, arg[i].name)
                     THEN GroupEnd(i, "INVALID_INPUT")
                     ELSE arg' = [arg EXCEPT ![i].pc = "write"] /\ UNCHANGED last
    /\ UNCHANGED <<db, now>>

\* groupRepo.Create(group) / groupRepo.Update(existing)
GroupWrite(i) ==
    /\ arg[i].pc = "write"
    /\ LET g == GroupBody(arg[i].id, arg[i].name)
           r == IF arg[i].op = "GroupService.CreateGroup"
                THEN GroupRepositoryCreate(db, g)
                ELSE GroupRepositoryUpdate(db, g)
       IN  /\ db' = r.db
           /\ GroupEnd(i, IF r.err = "nil" THEN "nil" ELSE "INTERNAL_ERROR")
    /\ UNCHANGED now

NextGroups ==
    \E i \in GroupClients :
        \/ GroupBegin(i)
        \/ GroupCheck(i)
        \/ GroupWrite(i)

SpecGroups == InitGroups /\ [][NextGroups]_vars

\* request i asks for a name that another stored group carries (a create with
\* an id of its own)
NameCollision(i) ==
    IF arg[i].op = "GroupService.CreateGroup"
    THEN ~Exists(db.groups, arg[i].id) /\ NameTaken(db.groups, arg[i].name)
    ELSE Exists(db.groups, arg[i].id) /\ NameTakenByOther(db.groups, arg[i].id, arg[i].name)

\* C26 (as claimed): with two group requests running at once, no two stored
\* groups ever share a name, and a request that ends while the name it asks
\* for belongs to another stored group ends with INVALID_INPUT and writes
\* nothing, as it does when the requests run one after the other.
C26_ConcurrentNameCollision ==
    [][/\ NamesUnique(db'.groups)
       /\ \A i \in GroupClients :
             (arg[i].pc # "idle" /\ arg'[i].pc = "idle" /\ NameCollision(i))
             => (last'.code = "INVALID_INPUT" /\ db' = db)
      ]_vars

\* no two stored groups share a name, whatever the interleaving
GroupNamesStayUnique == NamesUnique(db.groups)

\* ------------------------------------------------------------------ session references
\* every stored session names a group and a study activity that are in the store
SessionsReferToRows(d) ==
    \A s \in d.study_sessions :
        /\ Exists(d.groups, s.group_id)
        /\ Exists(d.study_activities, s.study_activity_id)

ServiceOps ==
    {"Service.CreateStudySession", "Service.AddWordReview", "Service.DeleteWord",
     "Service.DeleteWordExec", "Service.DeleteGroup", "Service.ResetStudyHistory"}

\* C27 (as claimed): no service operation takes the store from a state where
\* every session names a stored group and a stored study activity to a state
\* where one does not; in particular GroupService.DeleteGroup leaves no
\* session whose group is gone.
C27_SessionsReferToRows ==
    [][(last'.op \in ServiceOps /\ SessionsReferToRows(db)) => SessionsReferToRows(db')]_vars

\* ------------------------------------------------------------------ active groups
\* GroupRepository.GetActiveGroupCount: Model(&Group{}) joined with word_groups
\* and word_review_items, Distinct() without a column, Count. gorm builds
\* SELECT count(*) for it, the number of rows of the join.
GroupRepositoryGetActiveGroupCount(d) ==
    Cardinality({<<g, m, r>> \in d.groups \X d.word_groups \X d.word_review_items :
                    m.group_id = g.id /\ r.word_id = m.word_id})

\* C28 (as claimed): in every reachable state GroupRepository.GetActiveGroupCount
\* and StudyRepository.GetActiveGroups return the same number, the number of
\* stored groups that at least one session targets.
C28_ActiveGroupCountersAgree ==
    LET want == Cardinality({g \in Ids(db.groups) :
                                \E s \in db.study_sessions : s.group_id = g})
    IN  /\ GroupRepositoryGetActiveGroupCount(db) = GetActiveGroups(db)
        /\ GetActiveGroups(db) = want

\* ------------------------------------------------------------------ study progress
\* WordRepository.GetTotalWordCount
WordRepositoryGetTotalWordCount(d) == Cardinality(d.words)

\* WordRepository.GetStudiedWordCount (repository/word.go): words joined with
\* word_review_items, Distinct() without a column, Count: the number of rows
\* of the join
WordRepositoryGetStudiedWordCount(d) ==
    [count |-> Cardinality({<<w, r>> \in d.words \X d.word_review_items : r.word_id = w.id}),
     err |-> "nil"]

\* WordRepository.GetStudiedWordCount (the variant that joins word_reviews):
\* the schema has no table of that name, the statement fails
WordRepositoryGetStudiedWordCountJoin(d) == [count |-> 0, err |-> "sql"]

\* DashboardService.GetStudyProgress over a studied-word count
DashboardServiceGetStudyProgress(d, studied) ==
    IF studied.err # "nil"
    THEN [code |-> "INTERNAL_ERROR", total_words_studied |-> 0, total_available_words |-> 0]
    ELSE [code |-> "nil",
          total_words_studied   |-> studied.count,
          total_available_words |-> WordRepositoryGetTotalWordCount(d)]

\* DashboardHandler.GetStudyProgress: COUNT(DISTINCT word_id) over the reviews
DashboardHandlerGetStudyProgress(d) ==
    [code |-> "200",
     total_words_studied   |-> Cardinality({r.word_id : r \in d.word_review_items}),
     total_available_words |-> Cardinality(d.words)]

\* C29 (as claimed): in every reachable state study progress, through the
\* dashboard service and through the dashboard handler, reports as
\* total_words_studied the number of stored words that have a review and as
\* total_available_words the number of stored words, so the first is never
\* above the second.
C29_StudyProgress ==
    LET want == [studied   |-> Cardinality({w \in Ids(db.words) :
                                               \E r \in db.word_review_items : r.word_id = w}),
                 available |-> Cardinality(db.words)]
        s == DashboardServiceGetStudyProgress(db, WordRepositoryGetStudiedWordCount(db))
        h == DashboardHandlerGetStudyProgress(db)
    IN  /\ s.code = "nil"
        /\ s.total_words_studied = want.studied
        /\ s.total_available_words = want.available
        /\ h.total_words_studied = want.studied
        /\ h.total_available_words = want.available
        /\ s.total_words_studied <= s.total_available_words
        /\ h.total_words_studied <= h.total_available_words

\* ------------------------------------------------------------------ session rows
\* C30: in every step the stored sessions all stay, unless the step is a
\* successful history reset or full reset; a word delete and a group delete,
\* through the services or the handlers, remove no session.
C30_SessionsLeaveOnlyByReset ==
    [][\/ db.study_sessions \subseteq db'.study_sessions
       \/ ResetDone' \/ FullResetDone'
      ]_vars

\* a group has been deleted and the session that targets it is still stored
C30_Witness ==
    /\ last.op = "Service.DeleteGroup" /\ last.code = "nil"
    /\ ~Exists(db.groups, last.id)
    /\ \E s \in db.study_sessions : s.group_id = last.id

====
